---- MODULE Spec2Model ----
(***************************************************************************)
(* A model of the lom-vie-translate batch translator: the key rotator and  *)
(* translate_text (src/src/translator.py), process_entry and               *)
(* process_json_file (src/src/file_processor.py) and the producer,         *)
(* consumer and driver of src/src/main.py.                                 *)
(*                                                                         *)
(* The program runs on one asyncio event loop: the code between two awaits *)
(* is one atomic step, so every action below is the code from one          *)
(* suspension point to the next.  Only the oracle call runs in a thread    *)
(* (asyncio.to_thread); it touches no state of the program.                *)
(*                                                                         *)
(* Texts are sequences of tokens: a token is one character or one marker   *)
(* ("[|]", "**", ...), so strip and replace are computed, not assumed.     *)
(***************************************************************************)
EXTENDS Integers, Sequences, FiniteSets, TLC

----------------------------------------------------------------------------
(* Bounds of the model *)

\* Most API keys in the pool (API_KEYS comes from the environment).
MaxKeys == 3
\* Most models in the chain (PRIMARY_LLM_MODEL + FALLBACK_LLM_MODELS).
MaxModels == 2
\* Most entries of one input document.
MaxEntries == 3
\* Most input documents of a run.
MaxFiles == 2
\* Longest raw entry text, in tokens.
MaxTextLen == 2
\* Most terms (or lines) of a glossary file.
MaxTerms == 3

(* Program constants *)

\* translator.py:91, the local MAX_GLOBAL_RETRIES of translate_text (the
\* MAX_GLOBAL_RETRIES of config.py is never read).
MAX_GLOBAL_RETRIES == 1
\* config.py:23, MAX_CONCURRENT (environment; 5 by default), kept small here.
MAX_CONCURRENT == 2
\* config.py:24: the read tasks that may hold a file open at a time.
MAX_CONCURRENT_FILE_OPENS == 1

----------------------------------------------------------------------------
(* Text *)

\* Python's str.strip() removes these from both ends.
Whitespace == {" ", "CR", "LF"}

RECURSIVE LStrip(_)
LStrip(s) ==
    IF s # <<>> /\ Head(s) \in Whitespace THEN LStrip(Tail(s)) ELSE s

RECURSIVE RStrip(_)
RStrip(s) ==
    IF s # <<>> /\ s[Len(s)] \in Whitespace
    THEN RStrip(SubSeq(s, 1, Len(s) - 1))
    ELSE s

\* A strip that leaves the text as it is.
Strip_Nothing(s) == s

Strip(s) == RStrip(LStrip(s))

\* str.replace(old, new): left to right, non-overlapping.
RECURSIVE Replace(_, _, _)
Replace(s, old, new) ==
    IF Len(s) < Len(old) THEN s
    ELSE IF SubSeq(s, 1, Len(old)) = old
         THEN new \o Replace(SubSeq(s, Len(old) + 1, Len(s)), old, new)
         ELSE <<Head(s)>> \o Replace(Tail(s), old, new)

\* utils.postprocess_text(text, for_json=True).  "CR"/"LF" are the real
\* characters, "\\r"/"\\n" the two-character escapes.
postprocess_text(text) ==
    LET t1 == Strip(text)
        t2 == Replace(t1, <<"[|]">>, <<"CR">>)
        t3 == Replace(t2, <<"[||]">>, <<"LF">>)
        t4 == Replace(t3, <<"**">>, <<>>)
        t5 == Replace(t4, <<"LF", "LF">>, <<"LF">>)
        t6 == Replace(t5, <<"\\n", "\\n">>, <<"\\n">>)
        t7 == Replace(t6, <<"Day la ban dich:", "LF">>, <<>>)
    IN  Replace(Replace(t7, <<"\\r">>, <<"CR">>), <<"\\n">>, <<"LF">>)

\* utils.SPECIAL_CHARS; each marker is one token.  "fw???" stands for the
\* full-width question marks, "...o" and "...!" for the two ellipsis markers.
SPECIAL_CHARS ==
    { <<"fw???">>, <<"{{title}}">>, <<"???">>, <<"[{{0}}]">>, <<"[{0}]">>,
      <<"[|]">>, <<"[||]">>, <<"...o">>, <<"...!">> }

----------------------------------------------------------------------------
(* Inputs and state *)

FileIds == 1 .. MaxFiles
\* The entry task of entry i of file f (one coroutine of the gather of
\* process_json_file).
Tasks == FileIds \X (1 .. MaxEntries)

VARIABLES
    \* configuration and inputs, fixed once the run has started
    API_KEYS,              \* config.API_KEYS, the credential pool
    all_available_models,  \* translator.py:90, primary model first
    translation_cache,     \* source text -> old translation
    glossary_text,         \* source text -> glossary translation
    files,                 \* the input documents, by file id
    mode,                  \* args.mode: "translate" or "improve"
    generate_content,      \* a deterministic oracle, where the run has one
    \* load_glossary_async and find_original_matches
    glossary_data,         \* the glossary file as read: its kind and its terms or lines
    name_to_translated,    \* dict, as its items in insertion order
    original_to_translated, \* dict, as its items in insertion order
    source_text,           \* the text find_original_matches was given
    matches,               \* what it returned
    \* the rotator
    api_key_cycle,         \* itertools.cycle(API_KEYS): 0-based place of the next key
    api_key_lock,          \* threading.Lock: the task that holds it, if any
    issued,                \* the keys get_model returned since the cycle was new,
                           \* the last len(API_KEYS) of them
    genai_api_key,         \* genai.configure(api_key=...): the key the client
                           \* library is configured with, one for the process
    \* one entry task: process_entry and its translate_text
    pc,                    \* where the task is suspended
    global_retry_count,
    current_model_idx,
    api_retries,
    api_key,               \* the key get_model returned for the attempt
    result,                \* what process_entry returned
    \* what a call-counting oracle stub and a log reader would see
    calls,                 \* oracle calls issued by the task
    attempts,              \* of these, on the current model in the current round
    models_called,         \* model indices the task called the oracle with
    call_key,              \* the key the task's oracle call has gone out with,
                           \* while the call lasts
    keys_tried,            \* the keys get_model returned to the task for the
                           \* current model in the current round
    critical,              \* logger.critical events of the task
    received,              \* the non-empty response the task got, if any
    provenance,            \* which tier resolved the entry
    \* process_json_file, per file
    fpc,                   \* where process_json_file is suspended
    semaphore,             \* asyncio.Semaphore(MAX_CONCURRENT): free permits
    waiters,               \* its FIFO of waiting entry tasks
    completed,             \* entry indices in the order their tasks ended
    translations,          \* the list gather returned
    output,                \* the translated document written
    \* the aggregator and the statistics of main_async
    run_stats,
    all_data_dict,
    translation_pairs,
    \* the file pipeline of main_async
    queue,                 \* asyncio.Queue(): the items put and not yet got
    unfinished_tasks,      \* its count of items put and not yet acknowledged
    traffic,               \* how often each file was put, got and acknowledged
    rpc,                   \* where read_file_and_put_in_queue of a file is suspended
    open_semaphore,        \* asyncio.Semaphore(MAX_CONCURRENT_FILE_OPENS): free permits
    open_waiters,          \* its FIFO of waiting read tasks
    cpc,                   \* where file_consumer is suspended
    current,               \* the file the consumer processes
    dpc                    \* where main_async is suspended

loadvars == <<glossary_data, name_to_translated, original_to_translated,
              source_text, matches>>
cfgvars == <<API_KEYS, all_available_models, translation_cache, glossary_text, files,
             mode, generate_content, loadvars>>
rotation == <<api_key_cycle, api_key_lock, issued, genai_api_key>>
ctlvars == <<global_retry_count, current_model_idx, api_retries, api_key>>
histvars == <<calls, attempts, models_called, call_key, keys_tried>>
endvars == <<result, critical, received, provenance, semaphore, waiters, completed>>
filevars == <<fpc, translations, output>>
aggvars == <<all_data_dict, translation_pairs>>
pipevars == <<queue, unfinished_tasks, traffic, rpc, open_semaphore,
              open_waiters, cpc, current, dpc>>
vars == <<cfgvars, rotation, pc, ctlvars, histvars, endvars, filevars,
          run_stats, aggvars, pipevars>>

\* The values of variables that hold nothing yet (Python's None): an entry
\* or list, a response text, a key.
None == [None |-> TRUE]
NoResponse == <<"<no response>">>
NoKey == <<"key", 0>>
\* A "Text" that is not a string (a JSON null or number).
NonString == <<"<non-string>">>
\* The lock when no task holds it.
Unlocked == <<0, 0>>
\* What a call of the oracle raises.
Raised == <<"<raised>">>
\* No deterministic oracle: every call may end in any way.
NoStub == <<>>

\* The texts the oracle may answer with (a response with parts); it may also
\* answer without parts, or raise.
Responses == { <<"V">>, <<" ", "**", "V", "[|]">>, <<" ">> }

NumKeys == Len(API_KEYS)
NumModels == Len(all_available_models)
\* The attempts of one translate_text whose every call fails, as the
\* specification counts them.
MaxAttempts == NumModels * NumKeys * (MAX_GLOBAL_RETRIES + 1)
\* The counters of the observer saturate one above what is expected.
CallCap == MaxAttempts + 1
AttemptCap == NumKeys + 1
Bump(n, cap) == IF n < cap THEN n + 1 ELSE cap

Entry(t) == files[t[1]].entries[t[2]]
EntryCount(f) == Len(files[f].entries)
TasksOf(f) == { t \in Tasks : t[1] = f /\ t[2] <= EntryCount(f) }
\* process_entry: original_text = entry['Text'].strip()
OriginalText(t) == Strip(Entry(t).Text)
Translated(t, text) == [Name |-> Entry(t).Name, Text |-> text]
\* The tasks asyncio.gather creates take their first step in the order of the
\* list, before any timer or thread of these tasks can complete.
Started(f) == \A t \in TasksOf(f) : pc[t] # "created"

----------------------------------------------------------------------------
(* get_model: the rotator *)

\* next(api_key_cycle) under api_key_lock: the key handed out ...
NextKey(cycle) == API_KEYS[cycle + 1]
\* A cycle that starts again at the first key after every key.
Advance_Restarts(cycle) == 0

\* ... and the cycle after it.
Advance(cycle) == (cycle + 1) % NumKeys

----------------------------------------------------------------------------
(* The end of an entry task *)

\* `async with semaphore` exit: Semaphore.release hands the permit to the
\* first waiter, or frees it.
Release(t, p, v) ==
    LET f == t[1] IN
    IF waiters[f] # <<>>
    THEN /\ pc' = [pc EXCEPT ![t] = p, ![<<f, Head(waiters[f])>>] = "woken"]
         /\ waiters' = [waiters EXCEPT ![f] = Tail(@)]
         /\ semaphore' = [semaphore EXCEPT ![f] = v]
    ELSE /\ pc' = [pc EXCEPT ![t] = p]
         /\ waiters' = waiters
         /\ semaphore' = [semaphore EXCEPT ![f] = v + 1]

\* process_entry returns `value` to safe_process_entry_with_delay, which
\* leaves the semaphore and ends the task; v is the permits free while the
\* task ran.
Return(t, value, tier, v) ==
    /\ Release(t, "done", v)
    /\ result' = [result EXCEPT ![t] = value]
    /\ provenance' = [provenance EXCEPT ![t] = tier]
    /\ completed' = [completed EXCEPT ![t[1]] = Append(@, t[2])]

----------------------------------------------------------------------------
(* translate_text *)

\* The keys returned since the cycle was new, after one more: all of them
\* while they are fewer than the pool, then the last len(API_KEYS).
Window(keys) ==
    IF Len(keys) <= NumKeys THEN keys
    ELSE SubSeq(keys, Len(keys) - NumKeys + 1, Len(keys))

\* translator.py:164-168: a task that wakes from the quota sleep replaces
\* the cycle before its next get_model.
Issue(t, key) ==
    issued' = IF pc[t] = "quota" THEN <<key>> ELSE Window(Append(issued, key))

\* A get_model that returns with the lock still held.
SelectKey_KeepsLock(t, round, idx, retries, cycle, v) ==
    /\ api_key_lock = Unlocked
    /\ api_key_lock' = t
    /\ Issue(t, NextKey(cycle))
    /\ pc' = [pc EXCEPT ![t] = "rate"]
    /\ semaphore' = [semaphore EXCEPT ![t[1]] = v]
    /\ global_retry_count' = [global_retry_count EXCEPT ![t] = round]
    /\ current_model_idx' = [current_model_idx EXCEPT ![t] = idx]
    /\ api_retries' = [api_retries EXCEPT ![t] = retries]
    /\ api_key' = [api_key EXCEPT ![t] = NextKey(cycle)]
    /\ api_key_cycle' = Advance(cycle)
    /\ genai_api_key' = NextKey(cycle)
    /\ attempts' = [attempts EXCEPT ![t] =
            IF idx = current_model_idx[t] /\ round = global_retry_count[t]
            THEN @ ELSE 0]
    /\ keys_tried' = [keys_tried EXCEPT ![t] =
            (IF idx = current_model_idx[t] /\ round = global_retry_count[t]
             THEN @ ELSE {}) \cup {NextKey(cycle)}]
    /\ call_key' = [call_key EXCEPT ![t] = NoKey]
    /\ UNCHANGED <<calls, models_called, result, critical, received,
                   provenance, waiters, completed>>

\* translator.py:103-107, 29-33: get_model takes the lock, advances the
\* cycle and frees the lock; then the rate-limit sleep.
SelectKey(t, round, idx, retries, cycle, v) ==
    /\ api_key_lock = Unlocked
    /\ api_key_lock' = Unlocked
    /\ Issue(t, NextKey(cycle))
    /\ pc' = [pc EXCEPT ![t] = "rate"]
    /\ semaphore' = [semaphore EXCEPT ![t[1]] = v]
    /\ global_retry_count' = [global_retry_count EXCEPT ![t] = round]
    /\ current_model_idx' = [current_model_idx EXCEPT ![t] = idx]
    /\ api_retries' = [api_retries EXCEPT ![t] = retries]
    /\ api_key' = [api_key EXCEPT ![t] = NextKey(cycle)]
    /\ api_key_cycle' = Advance(cycle)
    /\ genai_api_key' = NextKey(cycle)
    /\ attempts' = [attempts EXCEPT ![t] =
            IF idx = current_model_idx[t] /\ round = global_retry_count[t]
            THEN @ ELSE 0]
    /\ keys_tried' = [keys_tried EXCEPT ![t] =
            (IF idx = current_model_idx[t] /\ round = global_retry_count[t]
             THEN @ ELSE {}) \cup {NextKey(cycle)}]
    /\ call_key' = [call_key EXCEPT ![t] = NoKey]
    /\ UNCHANGED <<calls, models_called, result, critical, received,
                   provenance, waiters, completed>>

\* translator.py:173-176: all retries exhausted.
FailOpen(t, idx, retries) ==
    /\ Return(t, Translated(t, OriginalText(t)), "fail-open", semaphore[t[1]])
    /\ critical' = [critical EXCEPT ![t] = @ + 1]
    /\ current_model_idx' = [current_model_idx EXCEPT ![t] = idx]
    /\ api_retries' = [api_retries EXCEPT ![t] = retries]
    /\ call_key' = [call_key EXCEPT ![t] = NoKey]
    /\ keys_tried' = [keys_tried EXCEPT ![t] = {}]
    /\ UNCHANGED <<global_retry_count, api_key, rotation, calls, attempts,
                   models_called, received>>

\* translator.py:96 and 160: control reaches the head of the model loop with
\* current_model_idx = idx.
TryModel(t, idx, retries) ==
    IF idx < NumModels
    THEN SelectKey(t, global_retry_count[t], idx, 0, api_key_cycle,
                   semaphore[t[1]])
    ELSE IF global_retry_count[t] < MAX_GLOBAL_RETRIES
         THEN /\ pc' = [pc EXCEPT ![t] = "quota"]
              /\ current_model_idx' = [current_model_idx EXCEPT ![t] = idx]
              /\ api_retries' = [api_retries EXCEPT ![t] = retries]
              /\ call_key' = [call_key EXCEPT ![t] = NoKey]
              /\ keys_tried' = [keys_tried EXCEPT ![t] = {}]
              /\ UNCHANGED <<global_retry_count, api_key, rotation, calls,
                             attempts, models_called, endvars>>
         ELSE FailOpen(t, idx, retries)

\* A translate_text that notes the response and goes on to another attempt.
OnResponse_GoesOn(t, text) ==
    /\ received' = [received EXCEPT ![t] = text]
    /\ pc' = [pc EXCEPT ![t] = "rate"]
    /\ UNCHANGED <<ctlvars, rotation, histvars, critical, result,
                   provenance, semaphore, waiters, completed>>

\* translator.py:114-120: a response with parts.
OnResponse(t, text) ==
    /\ Return(t, Translated(t, postprocess_text(Strip(text))), "remote",
              semaphore[t[1]])
    /\ received' = [received EXCEPT ![t] = text]
    /\ call_key' = [call_key EXCEPT ![t] = NoKey]
    /\ keys_tried' = [keys_tried EXCEPT ![t] = {}]
    /\ UNCHANGED <<ctlvars, rotation, calls, attempts, models_called, critical>>

\* A translate_text that leaves a model at its first empty response.
OnEmpty_LeavesModel(t) ==
    TryModel(t, current_model_idx[t] + 1, api_retries[t] + 1)

\* A translate_text that starts the cycle again for every new model.
OnEmpty_ResetsCycle(t) ==
    LET retries == api_retries[t] + 1 IN
    IF retries < NumKeys
    THEN SelectKey(t, global_retry_count[t], current_model_idx[t], retries,
                   api_key_cycle, semaphore[t[1]])
    ELSE IF current_model_idx[t] + 1 < NumModels
    THEN SelectKey(t, global_retry_count[t], current_model_idx[t] + 1, 0, 0,
                   semaphore[t[1]])
    ELSE TryModel(t, current_model_idx[t] + 1, retries)

\* translator.py:121-137: a response without parts.
OnEmpty(t) ==
    LET retries == api_retries[t] + 1 IN
    IF retries < NumKeys
    THEN SelectKey(t, global_retry_count[t], current_model_idx[t], retries,
                   api_key_cycle, semaphore[t[1]])
    ELSE TryModel(t, current_model_idx[t] + 1, retries)

\* translator.py:139-156: the call raised; the handler sleeps, then breaks
\* out of the key loop whatever the retry count.
OnException(t) ==
    LET retries == api_retries[t] + 1 IN
    /\ pc' = [pc EXCEPT ![t] = "errsleep"]
    /\ api_retries' = [api_retries EXCEPT ![t] = retries]
    /\ current_model_idx' = [current_model_idx EXCEPT ![t] =
            IF retries < NumKeys THEN @ ELSE @ + 1]
    /\ attempts' = [attempts EXCEPT ![t] = IF retries < NumKeys THEN @ ELSE 0]
    /\ keys_tried' = [keys_tried EXCEPT ![t] = IF retries < NumKeys THEN @ ELSE {}]
    /\ call_key' = [call_key EXCEPT ![t] = NoKey]
    /\ UNCHANGED <<global_retry_count, api_key, rotation, calls,
                   models_called, endvars>>

\* translator.py:107-110, 35-37: the rate-limit sleep is over, the oracle is
\* called in a thread. get_model gave the key to genai.configure only, not
\* to GenerativeModel: the model object takes its client from the library's
\* process-wide configuration when generate_content first needs one, so the
\* call goes out with the key configured last.
RateElapsed(t) ==
    /\ pc[t] = "rate"
    /\ Started(t[1])
    /\ pc' = [pc EXCEPT ![t] = "call"]
    /\ calls' = [calls EXCEPT ![t] = Bump(@, CallCap)]
    /\ attempts' = [attempts EXCEPT ![t] = Bump(@, AttemptCap)]
    /\ models_called' = [models_called EXCEPT ![t] = @ \cup {current_model_idx[t]}]
    /\ call_key' = [call_key EXCEPT ![t] = genai_api_key]
    /\ UNCHANGED keys_tried
    /\ UNCHANGED <<cfgvars, pipevars, rotation, ctlvars, endvars, filevars,
                   run_stats, aggvars>>

\* translator.py:108-157: the oracle call is over.
OracleReturn(t) ==
    /\ pc[t] = "call"
    /\ Started(t[1])
    /\ \/ \E text \in Responses : OnResponse(t, text)
       \/ OnEmpty(t)
       \/ OnException(t)
    /\ UNCHANGED <<cfgvars, pipevars, filevars, run_stats, aggvars>>

\* translator.py:108-157: the oracle call is over, where the oracle is a
\* function of the prompt (the text), the model and the key of the call.
StubReturn(t) ==
    LET response == generate_content[<<OriginalText(t), current_model_idx[t],
                                       call_key[t]>>]
    IN
    /\ pc[t] = "call"
    /\ Started(t[1])
    /\ IF response = NoResponse THEN OnEmpty(t)
       ELSE IF response = Raised THEN OnException(t)
       ELSE OnResponse(t, response)
    /\ UNCHANGED <<cfgvars, pipevars, filevars, run_stats, aggvars>>

\* translator.py:156-157: the sleep of the exception handler is over.
ErrSleepElapsed(t) ==
    /\ pc[t] = "errsleep"
    /\ TryModel(t, current_model_idx[t], api_retries[t])
    /\ UNCHANGED <<cfgvars, pipevars, filevars, run_stats, aggvars>>

\* translator.py:164-168 and 94-107: the quota sleep is over; the cycle is
\* replaced and the next round starts with the primary model.
QuotaElapsed(t) ==
    /\ pc[t] = "quota"
    /\ SelectKey(t, global_retry_count[t] + 1, 0, 0, 0, semaphore[t[1]])
    /\ UNCHANGED <<cfgvars, pipevars, filevars, run_stats, aggvars>>

----------------------------------------------------------------------------
(* process_entry *)

\* file_processor.py:159-172: safe_process_entry_with_delay ends with the
\* exception process_entry raised.
Raise(t, v) ==
    /\ Release(t, "raised", v)
    /\ UNCHANGED <<result, provenance, completed>>

\* dict.get on a cache that may be empty: `if cache:` then `cache.get(text)`.
Lookup(cache, text) == IF text \in DOMAIN cache THEN cache[text] ELSE <<>>

\* A lookup that prefers the glossary to the cache.
Reuse_GlossaryFirst(text) ==
    IF Lookup(glossary_text, text) # <<>>
    THEN [tier |-> "glossary", stat |-> "from_glossary", text |-> glossary_text[text]]
    ELSE IF Lookup(translation_cache, text) # <<>>
    THEN [tier |-> "cache", stat |-> "from_cache", text |-> translation_cache[text]]
    ELSE [tier |-> "none", stat |-> "none", text |-> <<>>]

\* file_processor.py:54-76: the old translation, else the glossary entry,
\* of the text.
Reuse(text) ==
    IF Lookup(translation_cache, text) # <<>>
    THEN [tier |-> "cache", stat |-> "from_cache", text |-> translation_cache[text]]
    ELSE IF Lookup(glossary_text, text) # <<>>
    THEN [tier |-> "glossary", stat |-> "from_glossary", text |-> glossary_text[text]]
    ELSE [tier |-> "none", stat |-> "none", text |-> <<>>]

\* A process_entry that counts an entry without Name or Text as empty.
process_entry_CountsMissing(t, v) ==
    LET entry == Entry(t)
        quiet == UNCHANGED <<ctlvars, rotation, histvars, critical, received>>
        count(k) == run_stats' = [run_stats EXCEPT ![k] = @ + 1]
    IN
    IF "Name" \notin DOMAIN entry \/ "Text" \notin DOMAIN entry
    THEN Return(t, entry, "missing", v) /\ quiet /\ count("empty")
    ELSE IF entry.Text = NonString
    THEN Raise(t, v) /\ quiet /\ UNCHANGED run_stats
    ELSE LET original_text == Strip(entry.Text)
             reuse == Reuse(original_text)
         IN
         IF original_text = <<>>
         THEN Return(t, entry, "empty", v) /\ quiet /\ count("empty")
         ELSE IF original_text \in SPECIAL_CHARS
         THEN /\ Return(t, Translated(t, original_text), "special", v)
              /\ quiet /\ count("special_chars")
         ELSE IF reuse.tier # "none"
         THEN /\ Return(t, Translated(t, reuse.text), reuse.tier, v)
              /\ quiet /\ count(reuse.stat)
         ELSE SelectKey(t, 0, 0, 0, api_key_cycle, v) /\ UNCHANGED run_stats

\* A process_entry that looks in the cache and the glossary before the
\* markers.
process_entry_ReuseFirst(t, v) ==
    LET entry == Entry(t)
        quiet == UNCHANGED <<ctlvars, rotation, histvars, critical, received>>
        count(k) == run_stats' = [run_stats EXCEPT ![k] = @ + 1]
    IN
    IF "Name" \notin DOMAIN entry \/ "Text" \notin DOMAIN entry
    THEN Return(t, entry, "missing", v) /\ quiet /\ UNCHANGED run_stats
    ELSE IF entry.Text = NonString
    THEN Raise(t, v) /\ quiet /\ UNCHANGED run_stats
    ELSE LET original_text == Strip(entry.Text)
             reuse == Reuse(original_text)
         IN
         IF original_text = <<>>
         THEN Return(t, entry, "empty", v) /\ quiet /\ count("empty")
         ELSE IF reuse.tier # "none"
         THEN /\ Return(t, Translated(t, reuse.text), reuse.tier, v)
              /\ quiet /\ count(reuse.stat)
         ELSE IF original_text \in SPECIAL_CHARS
         THEN /\ Return(t, Translated(t, original_text), "special", v)
              /\ quiet /\ count("special_chars")
         ELSE SelectKey(t, 0, 0, 0, api_key_cycle, v) /\ UNCHANGED run_stats

\* file_processor.py:29-87: process_entry from its first line to its return
\* or to the first sleep of translate_text; v is the permits left free.
process_entry(t, v) ==
    LET entry == Entry(t)
        quiet == UNCHANGED <<ctlvars, rotation, histvars, critical, received>>
        count(k) == run_stats' = [run_stats EXCEPT ![k] = @ + 1]
    IN
    IF "Name" \notin DOMAIN entry \/ "Text" \notin DOMAIN entry
    THEN Return(t, entry, "missing", v) /\ quiet /\ UNCHANGED run_stats
    ELSE IF entry.Text = NonString
    THEN Raise(t, v) /\ quiet /\ UNCHANGED run_stats
    ELSE LET original_text == Strip(entry.Text)
             reuse == Reuse(original_text)
         IN
         IF original_text = <<>>
         THEN Return(t, entry, "empty", v) /\ quiet /\ count("empty")
         ELSE IF original_text \in SPECIAL_CHARS
         THEN /\ Return(t, Translated(t, original_text), "special", v)
              /\ quiet /\ count("special_chars")
         ELSE IF reuse.tier # "none"
         THEN /\ Return(t, Translated(t, reuse.text), reuse.tier, v)
              /\ quiet /\ count(reuse.stat)
         ELSE SelectKey(t, 0, 0, 0, api_key_cycle, v) /\ UNCHANGED run_stats

\* A semaphore that lets every task in.
Locked_Never(f) == FALSE

\* file_processor.py:156, 161: asyncio.Semaphore.locked of the semaphore of
\* the file: no permit is free, or tasks wait already.
Locked(f) == semaphore[f] = 0 \/ waiters[f] # <<>>

\* file_processor.py:159-162: the first step of an entry task: it takes a
\* permit and runs process_entry, or waits in the semaphore.
TaskStart(t) ==
    LET f == t[1] IN
    /\ pc[t] = "created"
    /\ \A j \in 1 .. (t[2] - 1) : pc[<<f, j>>] # "created"
    /\ IF ~Locked(f)
       THEN process_entry(t, semaphore[f] - 1)
       ELSE /\ pc' = [pc EXCEPT ![t] = "waiting"]
            /\ waiters' = [waiters EXCEPT ![f] = Append(@, t[2])]
            /\ UNCHANGED <<ctlvars, rotation, histvars, result, critical,
                           received, provenance, semaphore, completed, run_stats>>
    /\ UNCHANGED <<cfgvars, pipevars, filevars, aggvars>>

\* file_processor.py:161-162: a waiter that was handed a permit resumes.
TaskResume(t) ==
    /\ pc[t] = "woken"
    /\ process_entry(t, semaphore[t[1]])
    /\ UNCHANGED <<cfgvars, pipevars, filevars, aggvars>>

----------------------------------------------------------------------------
(* process_json_file *)

\* A gather that lists the results as the tasks ended.
Gather_AsCompleted(f) ==
    [i \in 1 .. EntryCount(f) |-> result[<<f, completed[f][i]>>]]

\* asyncio.gather: the results in the order of the awaitables.
Gather(f) == [i \in 1 .. EntryCount(f) |-> result[<<f, i>>]]

\* file_processor.py:256-257: CR and LF written as escapes.
Escape(text) == Replace(Replace(text, <<"CR">>, <<"\\r">>), <<"LF">>, <<"\\n">>)

\* A dict whose keys are never found, so that every write adds an item.
HasKey_Never(pairs, k) == FALSE

\* file_processor.py:258: `escaped_original not in translation_pairs`.
HasKey(pairs, k) == \E n \in 1 .. Len(pairs) : pairs[n][1] = k

\* dict.get(key, '') of an entry.
GetText(entry) == IF "Text" \in DOMAIN entry THEN entry.Text ELSE <<>>

\* file_processor.py:236-259: the loop of _process_and_store_results from
\* position i on; ok is FALSE when .strip() met a Text that is no string.
RECURSIVE StoreFrom(_, _, _, _, _)
StoreFrom(trs, origs, i, details, pairs) ==
    IF i > Len(trs) \/ i > Len(origs)
    THEN [details |-> details, pairs |-> pairs, ok |-> TRUE]
    ELSE IF GetText(origs[i]) = NonString \/ GetText(trs[i]) = NonString
    THEN [details |-> details, pairs |-> pairs, ok |-> FALSE]
    ELSE LET entry == trs[i]
             original_text == Strip(GetText(origs[i]))
             final_text == Strip(GetText(entry))
         IN  IF "Name" \in DOMAIN entry /\ original_text # <<>> /\ final_text # <<>>
             THEN StoreFrom(trs, origs, i + 1,
                      Append(details, [Name |-> entry.Name,
                                       Original |-> original_text,
                                       Translated |-> final_text]),
                      IF HasKey(pairs, Escape(original_text))
                      THEN pairs
                      ELSE Append(pairs, <<Escape(original_text), Escape(final_text)>>))
             ELSE StoreFrom(trs, origs, i + 1, details, pairs)

\* A process_json_file without its except clause: the exception leaves it.
OnError_Propagates == "raised"

\* file_processor.py:139, 197-198: whatever is raised inside the try is
\* logged, and process_json_file returns: the state its call ends in.
OnError == "failed"

\* file_processor.py:139-145: json.loads, then the call of
\* prepare_prompt_data; a document that does not parse is logged and dropped.
ProcessStart(f) ==
    /\ fpc[f] = "start"
    /\ fpc' = [fpc EXCEPT ![f] =
                 IF files[f].shape = "invalid" THEN OnError ELSE "prompts"]
    /\ UNCHANGED <<cfgvars, pipevars, rotation, pc, ctlvars, histvars, endvars,
                   translations, output, run_stats, aggvars>>

\* file_processor.py:145-175: prepare_prompt_data is over; the entry tasks
\* are created and gathered.
PromptsReady(f) ==
    /\ fpc[f] = "prompts"
    /\ IF files[f].prompts = "raise"
       THEN /\ fpc' = [fpc EXCEPT ![f] = OnError]
            /\ UNCHANGED <<pc, semaphore>>
       ELSE /\ fpc' = [fpc EXCEPT ![f] = "gather"]
            /\ pc' = [t \in Tasks |-> IF t \in TasksOf(f) THEN "created" ELSE pc[t]]
            /\ semaphore' = [semaphore EXCEPT ![f] = MAX_CONCURRENT]
    /\ UNCHANGED <<cfgvars, pipevars, rotation, ctlvars, histvars, result, critical,
                   received, provenance, waiters, completed, translations,
                   output, run_stats, aggvars>>

\* file_processor.py:175-183: every entry task returned; the document is
\* rebuilt and its write begins.
GatherDone(f) ==
    /\ fpc[f] = "gather"
    /\ \A t \in TasksOf(f) : pc[t] = "done"
    /\ translations' = [translations EXCEPT ![f] = Gather(f)]
    /\ fpc' = [fpc EXCEPT ![f] = "write"]
    /\ UNCHANGED <<cfgvars, pipevars, rotation, pc, ctlvars, histvars, endvars,
                   output, run_stats, aggvars>>

\* file_processor.py:175, 197-198: an entry task raised; gather raises as
\* soon as the loop has run the tasks that were ready (every task has taken
\* its first step by then), the other tasks go on, the file is logged and
\* dropped.
GatherRaised(f) ==
    /\ fpc[f] = "gather"
    /\ Started(f)
    /\ \E t \in TasksOf(f) : pc[t] = "raised"
    /\ fpc' = [fpc EXCEPT ![f] = OnError]
    /\ UNCHANGED <<cfgvars, pipevars, rotation, pc, ctlvars, histvars, endvars,
                   translations, output, run_stats, aggvars>>

\* file_processor.py:229-234, 248-252: the raw translation of a detail, in
\* improve mode, when the raw translation of the file parsed (it then holds
\* a raw text for every Name); one that does not parse is logged.
RawText == <<"R">>
WithRaw(f, detail) ==
    IF mode = "improve" /\ files[f].paired = "ok"
    THEN [Name |-> detail.Name, Original |-> detail.Original,
          Translated |-> detail.Translated, Raw |-> RawText]
    ELSE detail

\* file_processor.py:182-198: the document is written, then
\* _process_and_store_results feeds the aggregator.
WriteDone(f) ==
    LET stored == StoreFrom(translations[f], files[f].entries, 1,
                            all_data_dict, translation_pairs)
    IN
    /\ fpc[f] = "write"
    /\ output' = [output EXCEPT ![f] =
                    [shape |-> files[f].shape, entries |-> translations[f]]]
    /\ all_data_dict' =
          [n \in 1 .. Len(stored.details) |->
              IF n <= Len(all_data_dict) THEN all_data_dict[n]
              ELSE WithRaw(f, stored.details[n])]
    /\ translation_pairs' = stored.pairs
    /\ fpc' = [fpc EXCEPT ![f] = IF stored.ok THEN "done" ELSE OnError]
    /\ UNCHANGED <<cfgvars, pipevars, rotation, pc, ctlvars, histvars, endvars,
                   translations, run_stats>>

----------------------------------------------------------------------------
(* main_async: the file pipeline *)

\* main.py:50-51: the read tasks gather creates take their first step in
\* the order of the list, before any read of a file can complete.
ReadersStarted == \A f \in FileIds : rpc[f] # "created"

\* main.py:22: the end of `async with semaphore`: the permit goes to the
\* first waiting read task, or back to the semaphore.
ReleaseOpen(f, p) ==
    IF open_waiters # <<>>
    THEN /\ rpc' = [rpc EXCEPT ![f] = p, ![Head(open_waiters)] = "woken"]
         /\ open_waiters' = Tail(open_waiters)
         /\ UNCHANGED open_semaphore
    ELSE /\ rpc' = [rpc EXCEPT ![f] = p]
         /\ open_semaphore' = open_semaphore + 1
         /\ UNCHANGED open_waiters

filestate == <<cfgvars, rotation, pc, ctlvars, histvars, endvars, filevars,
               run_stats, aggvars>>

\* A read task that opens its file without a permit.
ReadStart_NoPermit(f) ==
    /\ dpc = "await_producer"
    /\ rpc[f] = "created"
    /\ \A j \in 1 .. (f - 1) : rpc[j] # "created"
    /\ rpc' = [rpc EXCEPT ![f] = "chunk"]
    /\ UNCHANGED <<open_semaphore, open_waiters>>
    /\ UNCHANGED <<filestate, queue, unfinished_tasks, traffic, cpc, current, dpc>>

\* main.py:21-29: a read task takes a permit and opens its file, or waits
\* in the semaphore.
ReadStart(f) ==
    /\ dpc = "await_producer"
    /\ rpc[f] = "created"
    /\ \A j \in 1 .. (f - 1) : rpc[j] # "created"
    /\ IF open_semaphore > 0 /\ open_waiters = <<>>
       THEN /\ open_semaphore' = open_semaphore - 1
            /\ rpc' = [rpc EXCEPT ![f] = "chunk"]
            /\ UNCHANGED open_waiters
       ELSE /\ open_waiters' = Append(open_waiters, f)
            /\ rpc' = [rpc EXCEPT ![f] = "waiting"]
            /\ UNCHANGED open_semaphore
    /\ UNCHANGED <<filestate, queue, unfinished_tasks, traffic, cpc, current, dpc>>

\* main.py:22: a read task that waited has the permit.
ReadResume(f) ==
    /\ rpc[f] = "woken"
    /\ rpc' = [rpc EXCEPT ![f] = "chunk"]
    /\ UNCHANGED <<filestate, queue, unfinished_tasks, traffic, open_semaphore,
                   open_waiters, cpc, current, dpc>>

\* Every file goes on to be read whole and queued.
ReadChunk_QueuesAll(f) ==
    /\ rpc[f] = "chunk"
    /\ ReadersStarted
    /\ rpc' = [rpc EXCEPT ![f] = "rest"]
    /\ UNCHANGED <<open_semaphore, open_waiters>>
    /\ UNCHANGED <<filestate, queue, unfinished_tasks, traffic, cpc, current, dpc>>

\* main.py:29-36: the leading chunk is read; a file of another language
\* is left where it is and its read task returns.
ReadChunk(f) ==
    /\ rpc[f] = "chunk"
    /\ ReadersStarted
    /\ IF files[f].lang
       THEN /\ rpc' = [rpc EXCEPT ![f] = "rest"]
            /\ UNCHANGED <<open_semaphore, open_waiters>>
       ELSE ReleaseOpen(f, "skipped")
    /\ UNCHANGED <<filestate, queue, unfinished_tasks, traffic, cpc, current, dpc>>

\* A read task that puts its item twice.
ReadRest_PutsTwice(f) ==
    /\ rpc[f] = "rest"
    /\ queue' = Append(Append(queue, f), f)
    /\ unfinished_tasks' = unfinished_tasks + 2
    /\ traffic' = [traffic EXCEPT !.put[f] = @ + 2]
    /\ ReleaseOpen(f, "done")
    /\ UNCHANGED <<filestate, cpc, current, dpc>>

\* main.py:35-48, asyncio.Queue.put of a queue without maxsize: the rest is
\* read and the item is put at once, unless a raw translation of the file
\* is to be read first.
ReadRest(f) ==
    /\ rpc[f] = "rest"
    /\ IF mode = "improve" /\ files[f].paired # "absent"
       THEN /\ rpc' = [rpc EXCEPT ![f] = "pair"]
            /\ UNCHANGED <<queue, unfinished_tasks, traffic, open_semaphore,
                           open_waiters>>
       ELSE /\ queue' = Append(queue, f)
            /\ unfinished_tasks' = unfinished_tasks + 1
            /\ traffic' = [traffic EXCEPT !.put[f] = @ + 1]
            /\ ReleaseOpen(f, "done")
    /\ UNCHANGED <<filestate, cpc, current, dpc>>

\* main.py:38-48: the raw translation is read as text, and the item is put.
ReadPair(f) ==
    /\ rpc[f] = "pair"
    /\ queue' = Append(queue, f)
    /\ unfinished_tasks' = unfinished_tasks + 1
    /\ traffic' = [traffic EXCEPT !.put[f] = @ + 1]
    /\ ReleaseOpen(f, "done")
    /\ UNCHANGED <<filestate, cpc, current, dpc>>

\* A consumer that acknowledges the item as soon as it has got it.
ConsumerGet_AcksAtOnce ==
    /\ cpc = "get"
    /\ queue # <<>>
    /\ current' = Head(queue)
    /\ queue' = Tail(queue)
    /\ cpc' = "processing"
    /\ fpc' = [fpc EXCEPT ![Head(queue)] = "start"]
    /\ unfinished_tasks' = unfinished_tasks - 1
    /\ traffic' = [traffic EXCEPT !.got[Head(queue)] = @ + 1,
                                  !.ack[Head(queue)] = @ + 1]
    /\ UNCHANGED <<cfgvars, rotation, pc, ctlvars, histvars, endvars,
                   translations, output, run_stats, aggvars,
                   rpc, open_semaphore, open_waiters, dpc>>

\* main.py:54-56: queue.get returns the oldest item and the consumer calls
\* process_json_file with it.
ConsumerGet ==
    /\ cpc = "get"
    /\ queue # <<>>
    /\ current' = Head(queue)
    /\ queue' = Tail(queue)
    /\ cpc' = "processing"
    /\ fpc' = [fpc EXCEPT ![Head(queue)] = "start"]
    /\ traffic' = [traffic EXCEPT !.got[Head(queue)] = @ + 1]
    /\ UNCHANGED <<cfgvars, rotation, pc, ctlvars, histvars, endvars,
                   translations, output, run_stats, aggvars, unfinished_tasks,
                   rpc, open_semaphore, open_waiters, dpc>>

\* main.py:53-72: process_json_file is over; the item is acknowledged in
\* the finally. The try has no except: after a process_json_file that
\* returned the consumer asks for the next item, an exception that left
\* process_json_file would leave the loop and end the consumer task.
ConsumerAck ==
    /\ cpc = "processing"
    /\ fpc[current] \in {"done", "failed", "raised"}
    /\ unfinished_tasks' = unfinished_tasks - 1
    /\ traffic' = [traffic EXCEPT !.ack[current] = @ + 1]
    /\ cpc' = IF fpc[current] = "raised" THEN "ended" ELSE "get"
    /\ UNCHANGED <<filestate, queue, rpc, open_semaphore, open_waiters,
                   current, dpc>>

\* main.py:180: every read task is over, so is the producer.
ProducerDone ==
    /\ dpc = "await_producer"
    /\ \A f \in FileIds : rpc[f] \in {"done", "skipped"}
    /\ dpc' = "join"
    /\ UNCHANGED <<filestate, queue, unfinished_tasks, traffic, rpc, open_semaphore,
                   open_waiters, cpc, current>>

\* A driver that cancels the consumer without waiting for queue.join.
Joined_NoJoin ==
    /\ dpc = "join"
    /\ cpc' = "cancelling"
    /\ dpc' = "gather"
    /\ UNCHANGED <<filestate, queue, unfinished_tasks, traffic, rpc, open_semaphore,
                   open_waiters, current>>

\* main.py:181-182: every item is acknowledged; the consumer is cancelled.
Joined ==
    /\ dpc = "join"
    /\ unfinished_tasks = 0
    /\ cpc' = "cancelling"
    /\ dpc' = "gather"
    /\ UNCHANGED <<filestate, queue, unfinished_tasks, traffic, rpc, open_semaphore,
                   open_waiters, current>>

\* main.py:54: queue.get of the consumer raises CancelledError.
ConsumerCancelled ==
    /\ cpc = "cancelling"
    /\ cpc' = "cancelled"
    /\ UNCHANGED <<filestate, queue, unfinished_tasks, traffic, rpc, open_semaphore,
                   open_waiters, current, dpc>>

\* main.py:183-187: the consumer task is over; the artifacts are opened.
ConsumerGathered ==
    /\ dpc = "gather"
    /\ cpc = "cancelled"
    /\ dpc' = "write"
    /\ UNCHANGED <<filestate, queue, unfinished_tasks, traffic, rpc, open_semaphore,
                   open_waiters, cpc, current>>

\* main.py:196-204, logger.py:100-131: the figures of the run summary.
run_summary ==
    [files_processed |-> MaxFiles,
     total_translations |-> Len(all_data_dict),
     from_cache |-> run_stats.from_cache,
     from_glossary |-> run_stats.from_glossary,
     empty_lines |-> run_stats.empty,
     special_chars |-> run_stats.special_chars,
     new_translations |-> Len(all_data_dict) - run_stats.from_cache
                          - run_stats.from_glossary - run_stats.empty
                          - run_stats.special_chars,
     from_reuse_translation |-> 0]

\* main.py:186-204: the artifacts are written and the run is summed up.
ArtifactsWritten ==
    /\ dpc = "write"
    /\ dpc' = "done"
    /\ UNCHANGED <<filestate, queue, unfinished_tasks, traffic, rpc, open_semaphore,
                   open_waiters, cpc, current>>

----------------------------------------------------------------------------
(* glossary.py: the loader and the matcher *)

\* A dict as the sequence of its items <<key, value>> in insertion order:
\* `key in d` and the assignment d[key] = value, which keeps the place of
\* a key that is there and replaces its value.
InDict(d, k) == \E n \in 1 .. Len(d) : d[n][1] = k

\* An assignment that leaves a key that is there as it is.
SetItem_KeepsFirst(d, k, v) ==
    IF InDict(d, k) THEN d ELSE Append(d, <<k, v>>)

SetItem(d, k, v) ==
    IF InDict(d, k)
    THEN [n \in 1 .. Len(d) |-> IF d[n][1] = k THEN <<k, v>> ELSE d[n]]
    ELSE Append(d, <<k, v>>)

\* dict.get(field, "") of a term.
Field(term, name) == IF name \in DOMAIN term THEN term[name] ELSE <<>>

\* glossary.py:37-44: the loop over the terms of a JSON list, from term i.
RECURSIVE LoadTerms(_, _, _, _)
LoadTerms(data, i, names, originals) ==
    IF i > Len(data) THEN [names |-> names, originals |-> originals]
    ELSE LET name == Strip(Field(data[i], "Name"))
             original == Strip(Field(data[i], "Original"))
             translated == Strip(Field(data[i], "Translated"))
         IN  LoadTerms(data, i + 1,
                 IF name # <<>> /\ translated # <<>>
                 THEN SetItem(names, name, translated) ELSE names,
                 IF original # <<>> /\ translated # <<>>
                 THEN SetItem(originals, original, translated) ELSE originals)

\* str.split("=", 1): the tokens before the first "=" and those after it.
RECURSIVE Before(_)
Before(line) ==
    IF line = <<>> \/ Head(line) = "=" THEN <<>>
    ELSE <<Head(line)>> \o Before(Tail(line))
After(line) == SubSeq(line, Len(Before(line)) + 2, Len(line))

\* glossary.py:50-56: the loop over the lines of a text file, from line i.
RECURSIVE LoadLines(_, _, _, _)
LoadLines(lines, i, names, originals) ==
    IF i > Len(lines) THEN [names |-> names, originals |-> originals]
    ELSE LET line == lines[i].Line
             original == Strip(Before(line))
             translated == Strip(After(line))
         IN  IF (\E n \in 1 .. Len(line) : line[n] = "=")
                /\ original # <<>> /\ translated # <<>>
             THEN LoadLines(lines, i + 1, SetItem(names, original, translated),
                            SetItem(originals, original, translated))
             ELSE LoadLines(lines, i + 1, names, originals)

\* glossary.py:30-59 (and 145-185, the same loops): the two maps of a file.
load_glossary_async(file) ==
    IF file.suffix = ".json"
    THEN LoadTerms(file.data, 1, <<>>, <<>>)
    ELSE LoadLines(file.data, 1, <<>>, <<>>)

\* `orig in text` of two strings.
Occurs(orig, text) ==
    \E n \in 0 .. (Len(text) - Len(orig)) : SubSeq(text, n + 1, n + Len(orig)) = orig

\* A filter of the items of a dict, in its order.
RECURSIVE Select(_, _)
Select(d, text) ==
    IF d = <<>> THEN <<>>
    ELSE IF Head(d)[1] # <<>> /\ Occurs(Head(d)[1], text)
         THEN <<Head(d)>> \o Select(Tail(d), text)
         ELSE Select(Tail(d), text)

\* sorted(matches, key=len of the source, reverse=True): a stable sort,
\* that is, each item goes behind the items that are not shorter than it.
RECURSIVE SortedByLength(_)
SortedByLength(ms) ==
    IF ms = <<>> THEN <<>>
    ELSE LET rest == SortedByLength(SubSeq(ms, 1, Len(ms) - 1))
             last == ms[Len(ms)]
             n == Cardinality({ j \in 1 .. Len(rest) : Len(rest[j][1]) >= Len(last[1]) })
         IN  SubSeq(rest, 1, n) \o <<last>> \o SubSeq(rest, n + 1, Len(rest))

\* A matcher that returns the matches in the order of the dict.
find_original_matches_Unsorted(text, d) ==
    IF text = <<>> \/ d = <<>> THEN <<>> ELSE Select(d, text)

\* glossary.py:248-268.
find_original_matches(text, d) ==
    IF text = <<>> \/ d = <<>> THEN <<>> ELSE SortedByLength(Select(d, text))

\* The locals of the loader once it has returned.
GlossaryLoaded ==
    /\ glossary_data = <<>>
    /\ name_to_translated = <<>>
    /\ original_to_translated = <<>>
    /\ source_text = <<>>
    /\ matches = <<>>

----------------------------------------------------------------------------
(* Input documents *)

\* Raw texts of at most MaxTextLen tokens: blank, plain and marker tokens.
RECURSIVE SeqsUpTo(_, _)
SeqsUpTo(S, n) ==
    IF n = 0 THEN {<<>>}
    ELSE SeqsUpTo(S, n - 1) \cup
         { Append(s, x) : s \in { q \in SeqsUpTo(S, n - 1) : Len(q) = n - 1 }, x \in S }

Texts == SeqsUpTo({" ", "a", "b", "???"}, MaxTextLen)

NameOf(i) == <<"n", i>>

\* The entries a document may hold at place i.
EntriesAt(i) ==
    { [Name |-> NameOf(i), Text |-> x] : x \in Texts \cup {NonString} }
    \cup { [Text |-> x] : x \in Texts \cup {NonString} }
    \cup { [Name |-> NameOf(i)] }

\* An entry that reaches the oracle whatever the cache and glossary hold.
Plain(i) == [Name |-> NameOf(i), Text |-> <<"b", " ">>]

\* The maps the loaders build: stripped, non-empty keys and values
\* (glossary.py:43, 54, 103).
MapsOf(tag) ==
    { [k \in D |-> <<tag>> \o k] : D \in SUBSET {<<"a">>, <<"???">>} }

KeySeq(n) == [i \in 1 .. n |-> <<"key", i>>]
ModelSeq(n) == [i \in 1 .. n |-> <<"model", i>>]

\* A document: its content, how its prompt preparation ends, and the raw
\* translation of the same name in the directory of raw translations.
Document(shape, entries) ==
    [lang |-> TRUE, shape |-> shape, entries |-> entries, prompts |-> "ok",
     paired |-> "absent"]
NoDocument ==
    [lang |-> FALSE, shape |-> "invalid", entries |-> <<>>, prompts |-> "ok",
     paired |-> "absent"]

----------------------------------------------------------------------------
(* Specifications *)

\* main.py:170: the queue is new, nothing was put; and the traffic when the
\* consumer has got the one file of the run.
NoTraffic ==
    [put |-> [f \in FileIds |-> 0], got |-> [f \in FileIds |-> 0],
     ack |-> [f \in FileIds |-> 0]]
GotOne ==
    [put |-> [f \in FileIds |-> IF f = 1 THEN 1 ELSE 0],
     got |-> [f \in FileIds |-> IF f = 1 THEN 1 ELSE 0],
     ack |-> [f \in FileIds |-> 0]]

\* The state of the tasks, the aggregator and the statistics when
\* main_async has set them up (main.py:163-165).
InitRun ==
    /\ api_key_cycle = 0
    /\ api_key_lock = Unlocked
    /\ issued = <<>>
    /\ genai_api_key = NoKey
    /\ pc = [t \in Tasks |-> "none"]
    /\ global_retry_count = [t \in Tasks |-> 0]
    /\ current_model_idx = [t \in Tasks |-> 0]
    /\ api_retries = [t \in Tasks |-> 0]
    /\ api_key = [t \in Tasks |-> NoKey]
    /\ result = [t \in Tasks |-> None]
    /\ calls = [t \in Tasks |-> 0]
    /\ attempts = [t \in Tasks |-> 0]
    /\ models_called = [t \in Tasks |-> {}]
    /\ call_key = [t \in Tasks |-> NoKey]
    /\ keys_tried = [t \in Tasks |-> {}]
    /\ critical = [t \in Tasks |-> 0]
    /\ received = [t \in Tasks |-> NoResponse]
    /\ provenance = [t \in Tasks |-> "none"]
    /\ semaphore = [f \in FileIds |-> 0]
    /\ waiters = [f \in FileIds |-> <<>>]
    /\ completed = [f \in FileIds |-> <<>>]
    /\ translations = [f \in FileIds |-> <<>>]
    /\ output = [f \in FileIds |-> None]
    /\ run_stats = [from_cache |-> 0, from_glossary |-> 0, special_chars |-> 0, empty |-> 0]
    /\ all_data_dict = <<>>
    /\ translation_pairs = <<>>

\* process_json_file is called with one document: the pipeline holds
\* file 1 alone: the producer is over, and the consumer
\* has got the file and calls process_json_file.
InitFile(doc) ==
    /\ InitRun
    /\ files = [f \in FileIds |-> IF f = 1 THEN doc ELSE NoDocument]
    /\ fpc = [f \in FileIds |-> IF f = 1 THEN "start" ELSE "none"]
    /\ generate_content = NoStub
    /\ GlossaryLoaded
    /\ mode = "translate"
    /\ queue = <<>>
    /\ unfinished_tasks = 1
    /\ traffic = GotOne
    /\ rpc = [f \in FileIds |-> IF f = 1 THEN "done" ELSE "skipped"]
    /\ open_semaphore = MAX_CONCURRENT_FILE_OPENS
    /\ open_waiters = <<>>
    /\ cpc = "processing"
    /\ current = 1
    /\ dpc = "join"

\* translate_text under every pool and chain: one document with one entry
\* that reaches the oracle.
InitTranslate ==
    /\ \E n \in 1 .. MaxKeys : API_KEYS = KeySeq(n)
    /\ \E m \in 1 .. MaxModels : all_available_models = ModelSeq(m)
    /\ translation_cache = <<>>
    /\ glossary_text = <<>>
    /\ InitFile(Document("flat", <<Plain(1)>>))

\* process_entry under every cache and glossary: one document with one
\* entry of any kind, or a document that does not get as far as its entries.
OneEntryDocuments ==
    { Document("flat", <<e>>) : e \in EntriesAt(1) }
    \cup { Document("wrapped", <<Plain(1)>>), Document("wrapped", <<>>),
           Document("invalid", <<>>),
           [Document("flat", <<Plain(1)>>) EXCEPT !.prompts = "raise"] }

InitEntry ==
    /\ API_KEYS = KeySeq(1)
    /\ all_available_models = ModelSeq(1)
    /\ translation_cache \in MapsOf("C")
    /\ glossary_text \in MapsOf("G")
    /\ \E doc \in OneEntryDocuments : InitFile(doc)

\* The entry scheduler: documents of up to MaxEntries entries that reach
\* the oracle, are found in the cache, or raise.
ScheduledAt(i) ==
    { Plain(i), [Name |-> NameOf(i), Text |-> <<"a">>],
      [Name |-> NameOf(i), Text |-> NonString] }

RECURSIVE DocumentsOf(_)
DocumentsOf(n) ==
    IF n = 0 THEN {<<>>}
    ELSE { Append(d, e) : d \in DocumentsOf(n - 1), e \in ScheduledAt(n) }

InitSchedule ==
    /\ API_KEYS = KeySeq(1)
    /\ all_available_models = ModelSeq(1)
    /\ translation_cache = [k \in {<<"a">>} |-> <<"C", "a">>]
    /\ glossary_text = <<>>
    /\ \E n \in 1 .. MaxEntries : \E d \in DocumentsOf(n) :
          InitFile(Document("flat", d))

NextTask ==
    \/ \E t \in Tasks : TaskStart(t)
    \/ \E t \in Tasks : RateElapsed(t)
    \/ \E t \in Tasks : OracleReturn(t)
    \/ \E t \in Tasks : ErrSleepElapsed(t)
    \/ \E t \in Tasks : QuotaElapsed(t)

NextTranslate ==
    \/ \E f \in FileIds : ProcessStart(f)
    \/ \E f \in FileIds : PromptsReady(f)
    \/ NextTask
    \/ \E f \in FileIds : GatherDone(f)
    \/ \E f \in FileIds : WriteDone(f)

NextEntry ==
    \/ NextTranslate
    \/ \E f \in FileIds : GatherRaised(f)

NextSchedule ==
    \/ NextEntry
    \/ \E t \in Tasks : TaskResume(t)

\* The files of a run of the pipeline: of another language, with one entry
\* for the oracle, or with an entry that makes its task raise.
PipeDocuments ==
    { NoDocument, Document("flat", <<Plain(1)>>),
      Document("flat", <<[Name |-> NameOf(1), Text |-> NonString]>>) }

\* main.py:163-180: the producer and the consumer are created and
\* main_async waits for the producer.
InitPipe ==
    /\ InitRun
    /\ API_KEYS = KeySeq(2)
    /\ all_available_models = ModelSeq(1)
    /\ translation_cache = <<>>
    /\ glossary_text = <<>>
    /\ files \in [FileIds -> PipeDocuments]
    /\ generate_content = NoStub
    /\ GlossaryLoaded
    /\ mode = "translate"
    /\ fpc = [f \in FileIds |-> "none"]
    /\ queue = <<>>
    /\ unfinished_tasks = 0
    /\ traffic = NoTraffic
    /\ rpc = [f \in FileIds |-> "created"]
    /\ open_semaphore = MAX_CONCURRENT_FILE_OPENS
    /\ open_waiters = <<>>
    /\ cpc = "get"
    /\ current = 0
    /\ dpc = "await_producer"

\* A document of the pipeline has one entry, so that no entry task waits
\* for a permit.
NextPipe ==
    \/ \E f \in FileIds : ReadStart(f)
    \/ \E f \in FileIds : ReadResume(f)
    \/ \E f \in FileIds : ReadChunk(f)
    \/ \E f \in FileIds : ReadRest(f)
    \/ ProducerDone
    \/ ConsumerGet
    \/ NextEntry
    \/ ConsumerAck
    \/ Joined
    \/ ConsumerCancelled
    \/ ConsumerGathered
    \/ ArtifactsWritten

\* The event loop runs every task that is ready, every timer expires, and
\* every call of the oracle returns or raises.
FairPipe ==
    /\ \A f \in FileIds :
          /\ WF_vars(ReadStart(f)) /\ WF_vars(ReadResume(f))
          /\ WF_vars(ReadChunk(f)) /\ WF_vars(ReadRest(f))
          /\ WF_vars(ProcessStart(f)) /\ WF_vars(PromptsReady(f))
          /\ WF_vars(GatherDone(f)) /\ WF_vars(GatherRaised(f))
          /\ WF_vars(WriteDone(f))
    /\ \A t \in Tasks :
          /\ WF_vars(TaskStart(t)) /\ WF_vars(RateElapsed(t))
          /\ WF_vars(OracleReturn(t)) /\ WF_vars(ErrSleepElapsed(t))
          /\ WF_vars(QuotaElapsed(t))
    /\ WF_vars(ProducerDone) /\ WF_vars(ConsumerGet) /\ WF_vars(ConsumerAck)
    /\ WF_vars(Joined) /\ WF_vars(ConsumerCancelled)
    /\ WF_vars(ConsumerGathered) /\ WF_vars(ArtifactsWritten)

\* A document of three entries with different texts, none of them known
\* to the cache or the glossary.
RepeatDocument ==
    Document("flat", << [Name |-> NameOf(1), Text |-> <<"a">>],
                        [Name |-> NameOf(2), Text |-> <<"b">>],
                        [Name |-> NameOf(3), Text |-> <<"a", "b">>] >>)

\* The calls the entries of the document can make with one model and two
\* keys.
StubCalls == { <<"a">>, <<"b">>, <<"a", "b">> } \X {0} \X { <<"key", 1>>, <<"key", 2>> }

\* Deterministic oracles: one whose answer depends on the key, one that
\* never answers, one that raises with the first key.
StubTables ==
    { [c \in StubCalls |->
          IF c[3] = <<"key", 1>> THEN <<"V">>
          ELSE IF c[1] = <<"b">> THEN NoResponse
          ELSE <<" ", "**", "V", "[|]">>],
      [c \in StubCalls |-> NoResponse],
      [c \in StubCalls |-> IF c[3] = <<"key", 1>> THEN Raised ELSE <<"V">>] }

\* The first of two runs over the same document with the same oracle.
InitRepeat ==
    /\ InitRun
    /\ API_KEYS = KeySeq(2)
    /\ all_available_models = ModelSeq(1)
    /\ translation_cache = <<>>
    /\ glossary_text = <<>>
    /\ files = [f \in FileIds |-> IF f <= 2 THEN RepeatDocument ELSE NoDocument]
    /\ fpc = [f \in FileIds |-> IF f = 1 THEN "start" ELSE "none"]
    /\ generate_content \in StubTables
    /\ GlossaryLoaded
    /\ mode = "translate"
    /\ queue = <<>>
    /\ unfinished_tasks = 1
    /\ traffic = GotOne
    /\ rpc = [f \in FileIds |-> IF f = 1 THEN "done" ELSE "skipped"]
    /\ open_semaphore = MAX_CONCURRENT_FILE_OPENS
    /\ open_waiters = <<>>
    /\ cpc = "processing"
    /\ current = 1
    /\ dpc = "join"

\* translator.py:19, main.py:163-165: the program is run again on the same
\* document (file 2 stands for the document in the second run): the cycle,
\* the aggregator and the statistics are new.
SecondRun ==
    /\ fpc[1] \in {"done", "failed"}
    /\ fpc[2] = "none"
    /\ fpc' = [fpc EXCEPT ![2] = "start"]
    /\ api_key_cycle' = 0
    /\ api_key_lock' = Unlocked
    /\ issued' = <<>>
    /\ genai_api_key' = NoKey
    /\ run_stats' = [from_cache |-> 0, from_glossary |-> 0, special_chars |-> 0,
                     empty |-> 0]
    /\ all_data_dict' = <<>>
    /\ translation_pairs' = <<>>
    /\ current' = 2
    /\ UNCHANGED <<cfgvars, pc, ctlvars, histvars, endvars, translations, output,
                   queue, unfinished_tasks, traffic, rpc, open_semaphore, open_waiters,
                   cpc, dpc>>

NextRepeat ==
    \/ \E f \in FileIds : ProcessStart(f)
    \/ \E f \in FileIds : PromptsReady(f)
    \/ \E t \in Tasks : TaskStart(t)
    \/ \E t \in Tasks : TaskResume(t)
    \/ \E t \in Tasks : RateElapsed(t)
    \/ \E t \in Tasks : StubReturn(t)
    \/ \E t \in Tasks : ErrSleepElapsed(t)
    \/ \E t \in Tasks : QuotaElapsed(t)
    \/ \E f \in FileIds : GatherDone(f)
    \/ \E f \in FileIds : WriteDone(f)
    \/ SecondRun

\* The terms of a JSON glossary and the lines of a text glossary.
Terms ==
    { [Name |-> n, Original |-> o, Translated |-> x] :
          n \in { <<"n">>, <<"m">> },
          o \in { <<"a">>, <<"a", " ">>, <<"a", "b">> },
          x \in { <<"X">>, <<"Y">>, <<" ">> } }

Lines ==
    { [Line |-> l] :
          l \in { <<"a", "=", "X">>, <<"a", " ", "=", " ", "Y">>,
                  <<"a", "b", "=", "X", "=">>, <<"a", "=">>, <<"a", "b">> } }

RECURSIVE ListsOf(_, _)
ListsOf(S, n) ==
    IF n = 0 THEN {<<>>}
    ELSE ListsOf(S, n - 1) \cup
         { Append(l, x) : l \in { q \in ListsOf(S, n - 1) : Len(q) = n - 1 }, x \in S }

GlossaryFiles ==
    { [suffix |-> ".json", data |-> l] : l \in ListsOf(Terms, MaxTerms) }
    \cup { [suffix |-> ".txt", data |-> l] : l \in ListsOf(Lines, MaxTerms) }

\* The texts the matcher is asked about.
SourceTexts == { <<>>, <<"a">>, <<"b", "a", "b">>, <<"b", "b">> }

\* main.py:135-146: main_async is about to load the glossary; nothing else
\* of the run exists yet.
InitGlossary ==
    /\ InitRun
    /\ API_KEYS = KeySeq(1)
    /\ all_available_models = ModelSeq(1)
    /\ translation_cache = <<>>
    /\ glossary_text = <<>>
    /\ files = [f \in FileIds |-> NoDocument]
    /\ mode = "translate"
    /\ generate_content = NoStub
    /\ glossary_data \in GlossaryFiles
    /\ name_to_translated = <<>>
    /\ original_to_translated = <<>>
    /\ source_text = <<>>
    /\ matches = <<>>
    /\ fpc = [f \in FileIds |-> "none"]
    /\ queue = <<>>
    /\ unfinished_tasks = 0
    /\ traffic = NoTraffic
    /\ rpc = [f \in FileIds |-> "created"]
    /\ open_semaphore = MAX_CONCURRENT_FILE_OPENS
    /\ open_waiters = <<>>
    /\ cpc = "get"
    /\ current = 0
    /\ dpc = "load"

\* main.py:146-149, glossary.py:30-59: the glossary file is loaded.
LoadGlossary ==
    LET maps == load_glossary_async(glossary_data) IN
    /\ dpc = "load"
    /\ name_to_translated' = maps.names
    /\ original_to_translated' = maps.originals
    /\ dpc' = "loaded"
    /\ UNCHANGED <<API_KEYS, all_available_models, translation_cache, glossary_text,
                   files, mode, generate_content, glossary_data, source_text, matches,
                   rotation, pc, ctlvars, histvars, endvars, filevars, run_stats,
                   aggvars, queue, unfinished_tasks, traffic, rpc, open_semaphore,
                   open_waiters, cpc, current>>

\* translator.py:63, prompt_preparer.py:53: the matcher is asked about a
\* text.
FindMatches ==
    /\ dpc = "loaded"
    /\ \E asked \in SourceTexts :
          /\ source_text' = asked
          /\ matches' = find_original_matches(asked, original_to_translated)
    /\ dpc' = "matched"
    /\ UNCHANGED <<API_KEYS, all_available_models, translation_cache, glossary_text,
                   files, mode, generate_content, glossary_data, name_to_translated,
                   original_to_translated,
                   rotation, pc, ctlvars, histvars, endvars, filevars, run_stats,
                   aggvars, queue, unfinished_tasks, traffic, rpc, open_semaphore,
                   open_waiters, cpc, current>>

NextGlossary ==
    \/ LoadGlossary
    \/ FindMatches

SpecGlossary == InitGlossary /\ [][NextGlossary]_vars

SpecRepeat == InitRepeat /\ [][NextRepeat]_vars

\* A run of the pipeline over two files: the first has an entry that makes
\* its task raise and an entry for the oracle, the second an entry for the
\* oracle.
InitAbandon ==
    /\ InitRun
    /\ API_KEYS = KeySeq(2)
    /\ all_available_models = ModelSeq(1)
    /\ translation_cache = <<>>
    /\ glossary_text = <<>>
    /\ files = [f \in FileIds |->
                  IF f = 1
                  THEN Document("flat", <<[Name |-> NameOf(1), Text |-> NonString],
                                          Plain(2)>>)
                  ELSE IF f = 2 THEN Document("flat", <<Plain(1)>>)
                  ELSE NoDocument]
    /\ generate_content = NoStub
    /\ GlossaryLoaded
    /\ mode = "translate"
    /\ fpc = [f \in FileIds |-> "none"]
    /\ queue = <<>>
    /\ unfinished_tasks = 0
    /\ traffic = NoTraffic
    /\ rpc = [f \in FileIds |-> "created"]
    /\ open_semaphore = MAX_CONCURRENT_FILE_OPENS
    /\ open_waiters = <<>>
    /\ cpc = "get"
    /\ current = 0
    /\ dpc = "await_producer"

SpecAbandon == InitAbandon /\ [][NextPipe]_vars

\* Files whose processing fails: a content that does not parse, an entry
\* task that raises, a prompt step that raises; and a file that is
\* translated.
FailureDocuments ==
    { Document("invalid", <<>>),
      Document("flat", <<[Name |-> NameOf(1), Text |-> NonString]>>),
      [Document("flat", <<Plain(1)>>) EXCEPT !.prompts = "raise"],
      Document("flat", <<Plain(1)>>) }

\* main.py:163-180: the pipeline is set up with two such files (any further
\* file is of another language).
InitFailure ==
    /\ InitRun
    /\ API_KEYS = KeySeq(1)
    /\ all_available_models = ModelSeq(1)
    /\ translation_cache = <<>>
    /\ glossary_text = <<>>
    /\ \E d \in [1 .. 2 -> FailureDocuments] :
          files = [f \in FileIds |-> IF f <= 2 THEN d[f] ELSE NoDocument]
    /\ generate_content = NoStub
    /\ GlossaryLoaded
    /\ mode = "translate"
    /\ fpc = [f \in FileIds |-> "none"]
    /\ queue = <<>>
    /\ unfinished_tasks = 0
    /\ traffic = NoTraffic
    /\ rpc = [f \in FileIds |-> "created"]
    /\ open_semaphore = MAX_CONCURRENT_FILE_OPENS
    /\ open_waiters = <<>>
    /\ cpc = "get"
    /\ current = 0
    /\ dpc = "await_producer"

\* The pipeline with these files, under the scheduling of the event loop.
SpecFailure == InitFailure /\ [][NextPipe]_vars /\ FairPipe

\* The first file of a run whose summary is read: one entry that is blank,
\* a marker, in the cache, for the oracle, or not a string.
SummaryDocuments ==
    { Document("flat", <<[Name |-> NameOf(1), Text |-> x]>>) :
          x \in { <<" ">>, <<"???">>, <<"a">>, <<"b", " ">>, NonString } }

\* main.py:163-180: the pipeline is set up with such a file and a file with
\* an entry for the oracle; the cache knows the text "a".
InitSummary ==
    /\ InitRun
    /\ API_KEYS = KeySeq(1)
    /\ all_available_models = ModelSeq(1)
    /\ translation_cache = [k \in {<<"a">>} |-> <<"C", "a">>]
    /\ glossary_text = <<>>
    /\ \E doc \in SummaryDocuments :
          files = [f \in FileIds |->
                     IF f = 1 THEN doc
                     ELSE IF f = 2 THEN Document("flat", <<Plain(1)>>)
                     ELSE NoDocument]
    /\ generate_content = NoStub
    /\ GlossaryLoaded
    /\ mode = "translate"
    /\ fpc = [f \in FileIds |-> "none"]
    /\ queue = <<>>
    /\ unfinished_tasks = 0
    /\ traffic = NoTraffic
    /\ rpc = [f \in FileIds |-> "created"]
    /\ open_semaphore = MAX_CONCURRENT_FILE_OPENS
    /\ open_waiters = <<>>
    /\ cpc = "get"
    /\ current = 0
    /\ dpc = "await_producer"

SpecSummary == InitSummary /\ [][NextPipe]_vars

\* The files of a run in improve mode: one entry for the oracle, or one
\* that makes its task raise; the raw translation of the file is absent,
\* does not parse, or parses; the prompts are prepared or the preparation
\* raises.
ImproveDocuments ==
    { [Document("flat", <<Plain(1)>>) EXCEPT !.paired = p, !.prompts = q] :
          p \in {"absent", "malformed", "ok"}, q \in {"ok", "raise"} }
    \cup { [Document("flat", <<[Name |-> NameOf(1), Text |-> NonString]>>)
               EXCEPT !.paired = "ok"] }

\* main.py:98-99, 163-180: a run with --mode=improve and a directory of raw
\* translations.
InitImprove ==
    /\ InitRun
    /\ API_KEYS = KeySeq(1)
    /\ all_available_models = ModelSeq(1)
    /\ translation_cache = <<>>
    /\ glossary_text = <<>>
    /\ files \in [FileIds -> ImproveDocuments]
    /\ mode = "improve"
    /\ generate_content = NoStub
    /\ GlossaryLoaded
    /\ fpc = [f \in FileIds |-> "none"]
    /\ queue = <<>>
    /\ unfinished_tasks = 0
    /\ traffic = NoTraffic
    /\ rpc = [f \in FileIds |-> "created"]
    /\ open_semaphore = MAX_CONCURRENT_FILE_OPENS
    /\ open_waiters = <<>>
    /\ cpc = "get"
    /\ current = 0
    /\ dpc = "await_producer"

NextImprove ==
    \/ NextPipe
    \/ \E f \in FileIds : ReadPair(f)

SpecImprove == InitImprove /\ [][NextImprove]_vars

SpecPipe == InitPipe /\ [][NextPipe]_vars

SpecPipeFair == InitPipe /\ [][NextPipe]_vars /\ FairPipe

SpecEntry == InitEntry /\ [][NextEntry]_vars

SpecSchedule == InitSchedule /\ [][NextSchedule]_vars

SpecTranslate == InitTranslate /\ [][NextTranslate]_vars

----------------------------------------------------------------------------
(* Claims about translate_text *)

\* What translate_text returns to process_entry, as the entry it becomes.
Returned(t, text) == result[t] = Translated(t, text)

\* C1: when every oracle call of a translate_text failed (no parts, or an
\* exception), it has issued exactly modelCount * poolSize * (rounds + 1)
\* calls, returned the text it was given and logged one critical event.
C1_FailOpenAfterAllAttempts ==
    \A t \in Tasks :
        (pc[t] = "done" /\ calls[t] > 0 /\ received[t] = NoResponse) =>
            /\ calls[t] = MaxAttempts
            /\ Returned(t, OriginalText(t))
            /\ critical[t] = 1

\* C2: an exception counts as one failed attempt on the current model like
\* an empty response does: no model gets more than pool-size attempts in a
\* round, and no exception of the oracle ends the task.
C2_ExceptionCountsAsAttempt ==
    \A t \in Tasks :
        /\ attempts[t] <= NumKeys
        /\ (pc[t] = "raised" => calls[t] = 0)

\* C6: a response with parts that comes within the first pool-size attempts
\* is what the operation returns (post-processed), and the oracle was never
\* called with a fallback model.
C6_PrimarySuccessNoFallback ==
    \A t \in Tasks :
        (received[t] # NoResponse /\ calls[t] <= NumKeys) =>
            /\ pc[t] = "done"
            /\ Returned(t, postprocess_text(Strip(received[t])))
            /\ models_called[t] \subseteq {0}

\* Three keys, two models, two failed attempts, then a response.
C6_Witness ==
    \E t \in Tasks :
        /\ NumKeys = 3 /\ NumModels = 2
        /\ received[t] # NoResponse /\ calls[t] = 3
        /\ result[t].Text # received[t]

\* C7: the first response with parts ends the operation: it is returned
\* post-processed, and from then on the operation issues no call, takes no
\* key, and changes neither model nor round.
C7_FirstSuccessEnds ==
    [][\A t \in Tasks :
          /\ received'[t] # NoResponse =>
                /\ pc'[t] = "done"
                /\ result'[t] = Translated(t, postprocess_text(Strip(received'[t])))
          /\ received[t] # NoResponse =>
                /\ calls'[t] = calls[t] /\ api_key'[t] = api_key[t]
                /\ current_model_idx'[t] = current_model_idx[t]
                /\ global_retry_count'[t] = global_retry_count[t]
                /\ result'[t] = result[t]]_vars

\* A response came after failed attempts, and the document was finished.
C7_Witness ==
    \E t \in Tasks :
        /\ received[t] # NoResponse /\ calls[t] > 1
        /\ fpc[t[1]] = "done"

\* The tasks of a file that hold a permit: inside process_entry or
\* translate_text, at one of their sleeps or at the oracle.
InFlight(f) ==
    { t \in TasksOf(f) : pc[t] \in {"rate", "call", "errsleep", "quota"} }

\* C4: when the entry tasks of a document are gathered, the i-th element of
\* the list is the result of the i-th entry, in whatever order the tasks
\* ended.
C4_ResultsInInputOrder ==
    \A f \in FileIds :
        fpc[f] \in {"write", "done"} =>
            /\ Len(translations[f]) = EntryCount(f)
            /\ \A i \in 1 .. EntryCount(f) :
                  /\ translations[f][i].Name = Entry(<<f, i>>).Name
                  /\ translations[f][i] = result[<<f, i>>]

\* More entries than permits, gathered after a later entry ended before an
\* earlier one.
C4_Witness ==
    \E f \in FileIds :
        /\ fpc[f] = "done"
        /\ EntryCount(f) > MAX_CONCURRENT
        /\ \E i, j \in 1 .. EntryCount(f) :
              i < j /\ completed[f][i] > completed[f][j]
        /\ \E t \in TasksOf(f) : received[t] # NoResponse

\* The text an exact match is replaced with: the cache before the glossary.
Remembered(text) ==
    IF text \in DOMAIN translation_cache
    THEN translation_cache[text] ELSE glossary_text[text]

\* C5 as stated: an entry whose text is a key of the cache or of the
\* glossary is processed without an oracle call and its output text is the
\* value of that key.
C5_ExactMatchReused ==
    \A t \in Tasks :
        ( /\ pc[t] = "done"
          /\ "Text" \in DOMAIN Entry(t)
          /\ Entry(t).Text \in DOMAIN translation_cache \cup DOMAIN glossary_text ) =>
            /\ calls[t] = 0
            /\ result[t].Text = Remembered(Entry(t).Text)

\* C5 amended: an entry with a Name whose text is a key of the cache or of
\* the glossary, and is not one of the markers left verbatim, is processed
\* without an oracle call and its output text is the value of that key.
C5_MatchReusedUnlessVerbatim ==
    \A t \in Tasks :
        ( /\ pc[t] = "done"
          /\ "Text" \in DOMAIN Entry(t) /\ "Name" \in DOMAIN Entry(t)
          /\ Entry(t).Text \in DOMAIN translation_cache \cup DOMAIN glossary_text
          /\ Entry(t).Text \notin SPECIAL_CHARS ) =>
            /\ calls[t] = 0
            /\ result[t] = Translated(t, Remembered(Entry(t).Text))

\* The glossary alone knows the text of the entry; the cache knows another.
C5_Witness ==
    \E t \in Tasks :
        /\ pc[t] = "done" /\ "Name" \in DOMAIN Entry(t) /\ "Text" \in DOMAIN Entry(t)
        /\ Entry(t).Text \in DOMAIN glossary_text \ DOMAIN translation_cache
        /\ DOMAIN translation_cache # {}
        /\ run_stats.from_glossary = 1

\* C8: no more than MAX_CONCURRENT entry tasks of a file are inside
\* process_entry or translate_text at a time.
C8_InFlightBounded ==
    \A f \in FileIds : Cardinality(InFlight(f)) <= MAX_CONCURRENT

\* All permits are taken and a task waits for one.
C8_Witness ==
    \E f \in FileIds :
        /\ Cardinality(InFlight(f)) = MAX_CONCURRENT
        /\ waiters[f] # <<>>

\* A text of white space only.
Blank(x) == \A i \in 1 .. Len(x) : x[i] \in Whitespace

\* The entry of task t has a text, which is blank, and the task ends in
\* this step.
EndsBlank(t) ==
    /\ pc[t] # "done" /\ pc'[t] = "done"
    /\ "Text" \in DOMAIN Entry(t)
    /\ Entry(t).Text # NonString /\ Blank(Entry(t).Text)

\* C10 as stated: an entry whose text is empty or white space is returned
\* as it came, without an oracle call, and adds one to the empty counter
\* and to no other.
C10_EmptySkipped ==
    [][\A t \in Tasks :
          EndsBlank(t) =>
              /\ result'[t] = Entry(t)
              /\ calls'[t] = 0
              /\ run_stats' = [run_stats EXCEPT !.empty = @ + 1]]_vars

\* C10 amended: an entry with a Name whose text is empty or white space is
\* returned as it came, without an oracle call, and adds one to the empty
\* counter and to no other.
C10_NamedEmptySkipped ==
    [][\A t \in Tasks :
          (EndsBlank(t) /\ "Name" \in DOMAIN Entry(t)) =>
              /\ result'[t] = Entry(t)
              /\ calls'[t] = 0
              /\ run_stats' = [run_stats EXCEPT !.empty = @ + 1]]_vars

\* An entry of white space was skipped and counted.
C10_Witness ==
    \E t \in Tasks :
        /\ pc[t] = "done" /\ "Name" \in DOMAIN Entry(t)
        /\ "Text" \in DOMAIN Entry(t) /\ Entry(t).Text = <<" ">>
        /\ run_stats.empty = 1

----------------------------------------------------------------------------
(* Claims about the pipeline *)

\* C3: whatever the oracle does, a run under fair scheduling comes to the
\* writing of its artifacts, and an entry that was not resolved keeps its
\* source text.
C3_RunCompletes ==
    /\ <>(dpc \in {"write", "done"})
    /\ [](\A t \in Tasks :
            (pc[t] = "done" /\ calls[t] > 0 /\ received[t] = NoResponse) =>
                Returned(t, OriginalText(t)))

\* C9: the queue is bounded: it never holds every file of a run at once,
\* a read task waits when the queue is full.
C9_QueueBounded == Len(queue) < MaxFiles

----------------------------------------------------------------------------
(* Claims about the aggregator *)

\* The place of entry i in the order in which the tasks of file f ended.
EndedAt(f, i) == CHOOSE n \in 1 .. Len(completed[f]) : completed[f][n] = i

\* The entries of file f with a Name, the source text `text` and a
\* translation that is not blank.
Sources(f, text) ==
    { i \in 1 .. EntryCount(f) :
        /\ "Name" \in DOMAIN Entry(<<f, i>>) /\ "Text" \in DOMAIN Entry(<<f, i>>)
        /\ Entry(<<f, i>>).Text # NonString
        /\ RStrip(LStrip(Entry(<<f, i>>).Text)) = text
        /\ ~Blank(result[<<f, i>>].Text) }

\* The values the pairs map holds for the source text.
PairsOf(text) ==
    { n \in 1 .. Len(translation_pairs) : translation_pairs[n][1] = Escape(text) }

C12_SameArtifacts ==
    (fpc[1] = "done" /\ fpc[2] = "done") => output[1] = output[2]

----------------------------------------------------------------------------
(* Claims about process_json_file *)

\* C13: a failure of one entry (its retries exhausted, or an error raised
\* while it is processed) leaves the file with one output entry per input
\* entry, each other entry with its own result, the failed one with its
\* source text.
C13_EntryFailureContained ==
    \A f \in FileIds :
        ( /\ fpc[f] \in {"done", "failed"}
          /\ files[f].shape # "invalid" /\ files[f].prompts = "ok" ) =>
            /\ fpc[f] = "done"
            /\ Len(output[f].entries) = EntryCount(f)
            /\ \A i \in 1 .. EntryCount(f) :
                  /\ pc[<<f, i>>] = "done"
                  /\ output[f].entries[i] = result[<<f, i>>]
                  /\ provenance[<<f, i>>] = "fail-open" =>
                        Returned(<<f, i>>, OriginalText(<<f, i>>))

----------------------------------------------------------------------------
(* Claims about the shutdown of the pipeline *)

\* process_json_file of file f has been called and has not returned.
Processing(f) == fpc[f] \in {"start", "prompts", "gather", "write"}

\* C14: the consumer is cancelled only when the producer is over and every
\* item put on the queue is acknowledged; no file is being processed then.
C14_CancelAfterDrain ==
    [][(cpc' = "cancelling" /\ cpc # "cancelling") =>
          /\ \A f \in FileIds : rpc[f] \in {"done", "skipped"}
          /\ queue = <<>>
          /\ unfinished_tasks = 0
          /\ cpc = "get"
          /\ \A f \in FileIds : ~Processing(f)]_vars

\* The consumer is cancelled after it has processed every file of a run
\* with more than one.
C14_Witness ==
    /\ cpc = "cancelling"
    /\ \A f \in FileIds : fpc[f] \in {"done", "failed"}

\* C15: the consumer acknowledges an item once, when process_json_file of
\* the item is over: the count of unfinished items is the items in the
\* queue and the one being processed, it goes down by one at a time for
\* the file that has just been processed, and at zero no file is being
\* processed.
C15_AckAfterProcessing ==
    /\ [](/\ unfinished_tasks = Len(queue) + (IF cpc = "processing" THEN 1 ELSE 0)
          /\ unfinished_tasks = 0 => \A f \in FileIds : ~Processing(f))
    /\ [][unfinished_tasks' < unfinished_tasks =>
            /\ unfinished_tasks' = unfinished_tasks - 1
            /\ cpc = "processing" /\ cpc' = "get"
            /\ fpc[current] \in {"done", "failed"}]_vars

\* Every file of a run with more than one is processed and acknowledged.
C15_Witness ==
    /\ cpc = "get" /\ unfinished_tasks = 0 /\ current # 0
    /\ \A f \in FileIds : fpc[f] \in {"done", "failed"}

----------------------------------------------------------------------------
(* Claims about the rotator *)

GetsModel(t) == pc'[t] = "rate" /\ pc[t] # "rate"

\* The place of the cycle a get_model of task t starts from: the cycle is
\* new when the task comes from the quota sleep.
CursorFor(t) == IF pc[t] = "quota" THEN 0 ELSE api_key_cycle

\* C17: every get_model, of whatever task, returns the key at the cursor
\* and moves the cursor by one place modulo the pool size; since the cycle
\* was last new, any len(API_KEYS) calls in a row have returned every key
\* once.
C17_RotationByOne ==
    /\ [][\A t \in Tasks :
            GetsModel(t) =>
                /\ api_key'[t] = API_KEYS[CursorFor(t) + 1]
                /\ api_key_cycle' = (CursorFor(t) + 1) % Len(API_KEYS)]_vars
    /\ [](Len(issued) = Len(API_KEYS) =>
            { issued[n] : n \in 1 .. Len(issued) }
                = { API_KEYS[n] : n \in 1 .. Len(API_KEYS) })

\* Tasks that run together have each called get_model, more often than
\* there are keys, and the cursor is back at the first key.
C17_Witness ==
    /\ Len(API_KEYS) > 1 /\ Len(issued) = Len(API_KEYS)
    /\ Cardinality({ t \in Tasks : calls[t] > 0 /\ pc[t] \in {"rate", "call"} }) > 1
    /\ \E t \in Tasks : calls[t] > 1
    /\ api_key_cycle = 0

----------------------------------------------------------------------------
(* Claims about the documents written *)

\* C19: for a document of the target language that parses, process_json_file
\* writes one translated document, of the shape of the input and with one
\* entry for each entry of the input.
C19_OneDocumentSameShape ==
    \A f \in FileIds :
        ( /\ files[f].lang /\ files[f].shape # "invalid"
          /\ fpc[f] \in {"done", "failed"} ) =>
            /\ output[f] # None
            /\ output[f].shape = files[f].shape
            /\ Len(output[f].entries) = EntryCount(f)

\* A file that is in the queue or in the hands of the consumer, or for
\* which process_json_file was started.
Handled(f) ==
    \/ \E i \in 1 .. Len(queue) : queue[i] = f
    \/ current = f
    \/ fpc[f] # "none"

\* C20 as stated: a file of another language is never queued, never reaches
\* the consumer, and once its read task returned its document is in the
\* output as it was read.
C20_SkippedFileCopied ==
    \A f \in FileIds :
        ~files[f].lang =>
            /\ ~Handled(f)
            /\ rpc[f] = "skipped" =>
                  /\ output[f] # None
                  /\ output[f].shape = files[f].shape
                  /\ output[f].entries = files[f].entries

\* C20: a file of another language is never queued and never reaches the
\* consumer, and no document is written to the output for it.
C20_SkippedFileLeftAlone ==
    \A f \in FileIds :
        ~files[f].lang => (~Handled(f) /\ output[f] = None)

\* The run ended with one file translated and another skipped.
C20_Witness ==
    /\ dpc = "done"
    /\ \E f \in FileIds : ~files[f].lang /\ rpc[f] = "skipped"
    /\ \E f \in FileIds : files[f].lang /\ fpc[f] = "done"

----------------------------------------------------------------------------
(* Claims about the producer *)

\* The read tasks that are inside `async with aiofiles.open`.
FileOpen == { f \in FileIds : rpc[f] \in {"chunk", "rest"} }

\* C21: at most MAX_CONCURRENT_FILE_OPENS read tasks have their file open
\* at a time, and the producer is over only when every read task is.
C21_OpenFilesBounded ==
    /\ Cardinality(FileOpen) <= MAX_CONCURRENT_FILE_OPENS
    /\ dpc # "await_producer" =>
          \A f \in FileIds : rpc[f] \in {"done", "skipped"}

\* Every permit is taken and a read task waits for one.
C21_Witness ==
    /\ Cardinality(FileOpen) = MAX_CONCURRENT_FILE_OPENS
    /\ \E f \in FileIds : rpc[f] = "waiting"

----------------------------------------------------------------------------
(* Claims about the statistics *)

\* The entries that were handed to translate_text, and those of them that
\* came back with their source text after every attempt failed.
HandedOver == { t \in Tasks : provenance[t] \in {"remote", "fail-open"} }
FailedOpen == { t \in Tasks : provenance[t] = "fail-open" }

\* C22: when the run is summed up, the summary reports the count of the
\* entries that were handed to translate_text and the count of fail-opens,
\* each entry counted once, next to the counts of the other tiers.
C22_RemoteAndFailOpenCounted ==
    dpc = "done" =>
        /\ run_summary.new_translations = Cardinality(HandedOver)
        /\ "fail_open" \in DOMAIN run_summary
        /\ run_summary.fail_open = Cardinality(FailedOpen)

\* The tier the precedence gives an entry: missing field, empty, verbatim
\* marker, cache, glossary, remote.
TierOf(entry) ==
    IF ~({"Name", "Text"} \subseteq DOMAIN entry) THEN "missing"
    ELSE LET text == RStrip(LStrip(entry.Text)) IN
         IF Len(text) = 0 THEN "empty"
         ELSE IF text \in SPECIAL_CHARS THEN "special"
         ELSE IF text \in DOMAIN translation_cache THEN "cache"
         ELSE IF text \in DOMAIN glossary_text THEN "glossary"
         ELSE "remote"

\* The counters as they stand when one entry of the tier was counted, and
\* nothing else.
StatsFor(tier) ==
    [from_cache |-> IF tier = "cache" THEN 1 ELSE 0,
     from_glossary |-> IF tier = "glossary" THEN 1 ELSE 0,
     special_chars |-> IF tier = "special" THEN 1 ELSE 0,
     empty |-> IF tier = "empty" THEN 1 ELSE 0]

\* C23: an entry that process_entry returned was resolved by the one tier
\* the precedence gives it and at most one counter was incremented, by one;
\* a text that is a key of the cache and of the glossary takes the value of
\* the cache and counts as a cache hit only.
C23_OneTierByPrecedence ==
    \A t \in Tasks :
        pc[t] = "done" =>
            LET tier == TierOf(Entry(t)) IN
            /\ provenance[t] = tier \/ (provenance[t] = "fail-open" /\ tier = "remote")
            /\ run_stats = StatsFor(tier)
            /\ tier = "remote" <=> calls[t] > 0
            /\ tier = "cache" =>
                  result[t].Text = translation_cache[RStrip(LStrip(Entry(t).Text))]

\* An entry whose text is a key of the cache and of the glossary was
\* processed and its document written.
C23_Witness ==
    \E t \in Tasks :
        /\ fpc[t[1]] = "done"
        /\ provenance[t] = "cache"
        /\ RStrip(LStrip(Entry(t).Text)) \in DOMAIN glossary_text
        /\ run_stats.from_cache = 1

----------------------------------------------------------------------------
(* Claims about the glossary *)

\* The places of a key in a JSON glossary or a text glossary: the terms or
\* lines that have the key and a translation.
KeyAt(n, field) ==
    IF glossary_data.suffix = ".json"
    THEN RStrip(LStrip(glossary_data.data[n][field]))
    ELSE RStrip(LStrip(Before(glossary_data.data[n].Line)))
ValueAt(n) ==
    IF glossary_data.suffix = ".json"
    THEN RStrip(LStrip(glossary_data.data[n].Translated))
    ELSE RStrip(LStrip(After(glossary_data.data[n].Line)))
Counts(n) ==
    glossary_data.suffix = ".txt" =>
        \E j \in 1 .. Len(glossary_data.data[n].Line) :
            glossary_data.data[n].Line[j] = "="
Places(k, field) ==
    { n \in 1 .. Len(glossary_data.data) :
          Counts(n) /\ KeyAt(n, field) = k /\ k # <<>> /\ ValueAt(n) # <<>> }
Min(S) == CHOOSE n \in S : \A j \in S : n <= j
Max(S) == CHOOSE n \in S : \A j \in S : n >= j

Found ==
    { n \in 1 .. Len(original_to_translated) :
          LET orig == original_to_translated[n][1] IN
          /\ Len(orig) > 0
          /\ \E at \in 1 .. Len(source_text) :
                /\ at + Len(orig) - 1 <= Len(source_text)
                /\ \A j \in 1 .. Len(orig) : source_text[at + j - 1] = orig[j] }

\* C30: find_original_matches returns the items of the glossary whose
\* non-empty source text is a substring of the text, each once and no item
\* behind one with a strictly shorter source text; it returns the empty
\* list for an empty text or an empty glossary.
C30_MatchesLongestFirst ==
    dpc = "matched" =>
        /\ Len(matches) = Cardinality(Found)
        /\ \A n \in Found : \E i \in 1 .. Len(matches) :
              matches[i] = original_to_translated[n]
        /\ \A i, j \in 1 .. Len(matches) :
              i < j => Len(matches[i][1]) >= Len(matches[j][1])
        /\ (source_text = <<>> \/ original_to_translated = <<>>) => matches = <<>>

\* Two items matched, and the glossary holds the shorter before the longer.
C30_Witness ==
    /\ dpc = "matched"
    /\ Len(matches) = 2
    /\ Len(original_to_translated) = 2
    /\ matches[1] = original_to_translated[2]
    /\ Len(matches[1][1]) > Len(matches[2][1])

----------------------------------------------------------------------------
(* Claims about the aggregator *)

\* C25: an item of the pairs map is never changed or removed once it is
\* there, whatever entry or file comes later, and no two items of the map
\* have the same escaped source text.
C25_PairsInsertIfAbsent ==
    [][/\ \A n \in 1 .. Len(translation_pairs) :
             /\ n <= Len(translation_pairs')
             /\ translation_pairs'[n] = translation_pairs[n]
       /\ \A i, j \in 1 .. Len(translation_pairs') :
             translation_pairs'[i][1] = translation_pairs'[j][1] => i = j]_vars

\* Two files with the same source text got different translations, and the
\* pairs map holds one item.
C25_Witness ==
    /\ fpc[1] = "done" /\ fpc[2] = "done"
    /\ Entry(<<1, 1>>).Text = Entry(<<2, 1>>).Text
    /\ result[<<1, 1>>].Text # result[<<2, 1>>].Text
    /\ ~Blank(result[<<1, 1>>].Text) /\ ~Blank(result[<<2, 1>>].Text)
    /\ Len(translation_pairs) = 1

\* C26: the aggregator is written by the consumer alone, in the last step
\* of the process_json_file of the file it holds, while no other file is
\* being processed and no entry task of any file is in flight.
C26_AggregatorOneFileAtATime ==
    [][aggvars' # aggvars =>
          /\ cpc = "processing"
          /\ fpc[current] = "write" /\ fpc'[current] \in {"done", "failed"}
          /\ \A f \in FileIds \ {current} : fpc[f] \in {"none", "done", "failed"}
          /\ \A t \in Tasks : pc[t] \in {"none", "done", "raised"}]_vars

----------------------------------------------------------------------------
(* Claims about the short-circuits of process_entry *)

\* An entry without Name or without Text.
Lacking(entry) == "Name" \notin DOMAIN entry \/ "Text" \notin DOMAIN entry

\* C27: process_entry returns an entry that lacks Name or Text as it came,
\* without an oracle call and without a change of any counter.
C27_MissingFieldPassThrough ==
    [][\A t \in Tasks :
          (pc[t] \in {"created", "woken"} /\ pc'[t] # pc[t] /\ Lacking(Entry(t))) =>
              /\ pc'[t] \in {"done", "waiting"}
              /\ pc'[t] = "done" =>
                    /\ result'[t] = Entry(t)
                    /\ calls'[t] = 0 /\ api_key'[t] = NoKey
                    /\ run_stats' = run_stats]_vars

\* An entry without Name whose text is a key of the cache was returned.
C27_Witness ==
    \E t \in Tasks :
        /\ pc[t] = "done"
        /\ "Name" \notin DOMAIN Entry(t) /\ "Text" \in DOMAIN Entry(t)
        /\ Entry(t).Text \in DOMAIN translation_cache
        /\ result[t] = Entry(t)

\* The entry of task t has a text that is a marker of SPECIAL_CHARS, with
\* or without white space around it, and the task ends in this step.
EndsSpecial(t) ==
    /\ pc[t] \in {"created", "woken"} /\ pc'[t] \in {"done", "raised"}
    /\ "Text" \in DOMAIN Entry(t)
    /\ Entry(t).Text # NonString
    /\ RStrip(LStrip(Entry(t).Text)) \in SPECIAL_CHARS

\* C28 as stated: an entry whose text is a marker is returned with its text
\* as it came, without an oracle call, and adds one to the special counter
\* and to no other, also when the text is a key of the cache or the
\* glossary.
C28_SpecialPassedThrough ==
    [][\A t \in Tasks :
          EndsSpecial(t) =>
              /\ result'[t] = Entry(t)
              /\ calls'[t] = 0
              /\ run_stats' = [run_stats EXCEPT !.special_chars = @ + 1]]_vars

\* C28: an entry with a Name whose text is a marker is returned as this
\* Name with the marker, the white space around it stripped, without an
\* oracle call, and adds one to the special counter and to no other, also
\* when the text is a key of the cache or the glossary.
C28_NamedSpecialStripped ==
    [][\A t \in Tasks :
          (EndsSpecial(t) /\ "Name" \in DOMAIN Entry(t)) =>
              /\ pc'[t] = "done"
              /\ result'[t] = [Name |-> Entry(t).Name,
                               Text |-> RStrip(LStrip(Entry(t).Text))]
              /\ calls'[t] = 0 /\ api_key'[t] = NoKey
              /\ run_stats' = [run_stats EXCEPT !.special_chars = @ + 1]]_vars

\* A marker with white space before it, which the cache and the glossary
\* both know, was returned and counted.
C28_Witness ==
    \E t \in Tasks :
        /\ pc[t] = "done" /\ {"Name", "Text"} \subseteq DOMAIN Entry(t)
        /\ Entry(t).Text = <<" ", "???">>
        /\ <<"???">> \in DOMAIN translation_cache \cap DOMAIN glossary_text
        /\ result[t].Text = <<"???">>
        /\ run_stats.special_chars = 1

----------------------------------------------------------------------------
(* Claims about improve mode *)

\* C29: in improve mode, a file whose raw translation is absent or does not
\* parse is queued when its read task is over, its document is written with
\* one entry for each entry of the input when its processing is over, and
\* at the end of the run the consumer has processed every file that was
\* queued.
C29_PairingFaultContained ==
    mode = "improve" =>
        \A f \in FileIds :
            files[f].paired \in {"absent", "malformed"} =>
                /\ rpc[f] = "done" => Handled(f)
                /\ fpc[f] \in {"done", "failed"} =>
                      /\ fpc[f] = "done"
                      /\ output[f] # None
                      /\ Len(output[f].entries) = EntryCount(f)
                /\ dpc = "done" =>
                      \A g \in FileIds : files[g].lang => fpc[g] \in {"done", "failed"}

----------------------------------------------------------------------------
\* C31: the oracle call of an attempt goes out with the key get_model
\* returned for that attempt, also when other tasks call get_model between
\* the selection and the call.
C31_CallUsesSelectedKey ==
    \A t \in Tasks : pc[t] = "call" => call_key[t] = api_key[t]

----------------------------------------------------------------------------
\* The task leaves its model in this step: its failed call was the last of
\* len(API_KEYS) counted attempts (translator.py:129-133, 148-152).
GivesUp(t) ==
    /\ pc[t] = "call"
    /\ current_model_idx'[t] = current_model_idx[t] + 1

\* C32: a task that gives up on a model has been given every key of the
\* pool for that model in that round, also when other tasks of the file
\* take keys from the shared cycle or replace it in between.
C32_EveryKeyTried ==
    [][\A t \in Tasks :
          GivesUp(t) =>
              keys_tried[t] = { API_KEYS[n] : n \in 1 .. Len(API_KEYS) }]_vars

----------------------------------------------------------------------------
\* C33: whatever the oracle does (responses with parts, without parts,
\* exceptions), a translate_text issues at most modelCount * poolSize *
\* (MAX_GLOBAL_RETRIES + 1) calls and at most pool-size calls per model and
\* round, and goes through the models in the order of the chain: within a
\* round it stays with its model or goes on to the next one, and a new round
\* starts with the primary model.
C33_CallsBoundedModelsInOrder ==
    /\ [](\A t \in Tasks :
            /\ calls[t] <= NumModels * NumKeys * (MAX_GLOBAL_RETRIES + 1)
            /\ attempts[t] <= NumKeys)
    /\ [][\A t \in Tasks :
            /\ global_retry_count'[t] = global_retry_count[t] =>
                  current_model_idx'[t] \in
                      {current_model_idx[t], current_model_idx[t] + 1}
            /\ global_retry_count'[t] # global_retry_count[t] =>
                  /\ global_retry_count'[t] = global_retry_count[t] + 1
                  /\ current_model_idx[t] = NumModels
                  /\ current_model_idx'[t] = 0]_vars

----------------------------------------------------------------------------
\* C34: a file that passes the language test is put into the queue once
\* and a file that does not is never put; an item is got at most once and
\* acknowledged at most once, and only after it was put and got; and when
\* the driver writes the detail and pairs artifacts, every matching file
\* has been put, got, processed to its end and acknowledged exactly once.
C34_EachFileOnce ==
    \A f \in FileIds :
        /\ traffic.put[f] <= (IF files[f].lang THEN 1 ELSE 0)
        /\ traffic.got[f] <= traffic.put[f]
        /\ traffic.ack[f] <= traffic.got[f]
        /\ (dpc \in {"write", "done"} /\ files[f].lang) =>
              /\ traffic.put[f] = 1
              /\ traffic.got[f] = 1
              /\ traffic.ack[f] = 1
              /\ fpc[f] \in {"done", "failed"}

\* Two matching files went through the queue and the artifacts are written.
C34_Witness ==
    /\ dpc = "done"
    /\ \A f \in FileIds : files[f].lang /\ traffic.ack[f] = 1
    /\ \E f \in FileIds : fpc[f] = "done"

----------------------------------------------------------------------------
\* The matching files all went through process_json_file.
AllEnded == \A f \in FileIds : files[f].lang => fpc[f] \in {"done", "failed"}

\* C35: a file whose processing fails (its content does not parse, or
\* something raises inside process_json_file) does not end the consumer:
\* the consumer task never ends by an exception, the item of the failed
\* file is acknowledged, a file that was not yet got is got after it, and
\* once every file has been processed the wait of the driver for the queue
\* is over.
C35_FailureKeepsConsumer ==
    /\ [](cpc # "ended")
    /\ \A f \in FileIds : (fpc[f] = "failed") ~> (traffic.ack[f] = 1)
    /\ \A f, g \in FileIds :
          (fpc[f] = "failed" /\ files[g].lang /\ traffic.got[g] = 0)
              ~> (traffic.got[g] = 1)
    /\ ((\E f \in FileIds : fpc[f] = "failed") /\ AllEnded)
          ~> (dpc \in {"gather", "write", "done"})

\* The first file failed and was acknowledged, the consumer has got the
\* second, and later the driver is past queue.join.
C35_Witness ==
    /\ fpc[1] = "failed" /\ traffic.ack[1] = 1
    /\ traffic.got[2] = 1 /\ fpc[2] = "done"
    /\ dpc = "done"

----------------------------------------------------------------------------
\* C36: the "New Translations" figure of the run summary is the number of
\* entries that were handed to translate_text in the run, and is not
\* negative.
C36_NewTranslationsFigure ==
    dpc = "done" =>
        /\ run_summary.new_translations = Cardinality(HandedOver)
        /\ run_summary.new_translations >= 0

====
